---- MODULE Spec2Model ----
(***************************************************************************)
(* Model of help/help.c (NeoMutt help mailbox backend): the cached help    *)
(* document index (DocList, DocDirID, UpLink), the path classifier         *)
(* help_file_type, the front-matter parser help_file_header, the path      *)
(* translator help_path_transpose, the directory walker help_dir_scan and  *)
(* the projection of the index onto a Mailbox (help_doclist_parse,         *)
(* help_msg_open).                                                         *)
(*                                                                         *)
(* C strings are sequences of one-character strings; a char pointer into   *)
(* a string is a 1-based position, and the NULL pointer is position 0.     *)
(***************************************************************************)
EXTENDS Integers, Sequences, FiniteSets

VARIABLES
  C_HelpDocDir,  \* the configured root path ($help_doc_dir)
  fs,            \* the directory tree at /d: the entry of the directory /d
  DocList,       \* [null, data]: the global list of help documents
  DocDirID,      \* checksum of the root path DocList was built from
  UpLink,        \* DocList index of the uplink target
  pending,       \* what a running help_doclist_init() still has to do
  init_rc,       \* return value of the last help_doclist_init()
  walked,        \* whether the last help_doclist_init() scanned directories
  op,            \* the operation that made the last step
  lastRoot,      \* root path at the last help_doclist_init(), <<>> if none
  prev,          \* [root, id, present]: lastRoot, DocDirID and presence of
                 \* DocList just before the last help_doclist_init()
  batch,         \* what the last step, if it was a help_read_dir(), worked on:
                 \* [path, list, base, uplink], see HelpReadDir
  ft_file,       \* help_file_type: argument
  ft_done,       \* help_file_type: whether the call was made
  ft_ret,        \* help_file_type: result
  fh_file,       \* help_file_header: the file, [name, readable, lines]
  fh_max,        \* help_file_header: argument max
  fh_done,       \* help_file_header: whether the call was made
  fh_ret,        \* help_file_header: [rc, set, fhdr]: return value, whether
                 \* *fhdr was assigned, and the list assigned to it
  pt_path,       \* help_path_transpose: argument of the first call
  pt_validate,   \* help_path_transpose: argument validate
  pt_exists,     \* whether realpath() resolves the filesystem form
  pt_out,        \* result of the first call, Unset before it
  pt_back,       \* result of transposing pt_out again, Unset before it
  sc_path,       \* help_dir_scan: argument path
  sc_recursive,  \* help_dir_scan: argument recursive
  sc_mask,       \* help_dir_scan: argument mask, the set of its entry types
  sc_filter,     \* help_dir_scan: argument filter
  sc_done,       \* help_dir_scan: whether the call was made
  sc_ret,        \* help_dir_scan: [rc, gathered, walked]
  mbox,          \* the Mailbox m of the help_doclist_parse()/help_msg_open()
                 \* calls: [pathbuf, realpath, readonly, msg_count, emails]
  mx_rc,         \* return value of the last of these calls
  C_HideThreadSubject, \* the global setting $hide_thread_subject
  Backup_HTS,    \* __Backup_HTS
  boxes,         \* the Mailboxes of help_mbox_open()/help_mbox_close():
                 \* each [state, path, m], m as mbox
  hts_first,     \* C_HideThreadSubject before the first help_mbox_open()
                 \* since no Mailbox was open
  wk_state,      \* stepwise help_dir_scan: "idle", "run" or "done"
  wk_stack,      \* the activations of help_dir_scan, innermost last: each
                 \* [path, dp, k, errno, pc], dp the steps of the directory
                 \* stream and k its position
  wk_open,       \* number of directory streams opened and not yet closed
  wk_gathered,   \* the paths handed to gather() so far
  wk_rc,         \* return value of the outermost help_dir_scan
  sj_fhdr,       \* help_doc_subject: argument fhdr, a list of [key, val]
  sj_keys,       \* help_doc_subject: key and the arguments not yet taken
                 \* from ap, the terminating NULL left out
  sj_p,          \* help_doc_subject: p, a position in strfmt
  sj_l,          \* help_doc_subject: l
  sj_subject,    \* help_doc_subject: the string in subject, Unset before
                 \* anything was written
  sj_calls,      \* help_doc_subject: [offset, space] of each snprintf() call
  sj_done        \* help_doc_subject: whether the call returned

typeVars == <<ft_file, ft_done, ft_ret>>
hdrVars  == <<fh_file, fh_max, fh_done, fh_ret>>
pathVars == <<pt_path, pt_validate, pt_exists, pt_out, pt_back>>
scanVars == <<sc_path, sc_recursive, sc_mask, sc_filter, sc_done, sc_ret>>
boxVars  == <<mbox, mx_rc>>
htsVars  == <<C_HideThreadSubject, Backup_HTS, boxes, hts_first>>
walkVars == <<wk_state, wk_stack, wk_open, wk_gathered, wk_rc>>
subjVars == <<sj_fhdr, sj_keys, sj_p, sj_l, sj_subject, sj_calls, sj_done>>
idxVars  == <<fs, DocList, DocDirID, UpLink, pending, init_rc, walked, op,
              lastRoot, prev, batch>>
vars == <<C_HelpDocDir, idxVars, typeVars, hdrVars, pathVars, scanVars, boxVars,
          htsVars, walkVars, subjVars>>

(***************************************************************************)
(* Bounds                                                                  *)
(***************************************************************************)
\* longest run of directory segments put between root and file name
MaxSegs == 2

\* deepest directory below /d: /d/a is 1, /d/a/s is 2, ...
MaxDepth == 3
\* longest front-matter file, in lines
MaxLines == 4
\* longest remainder of a path behind the root or the scheme
MaxRest == 4

NULL  == <<"<NULL>">>    \* the NULL char pointer, as a result
Unset == <<"<unset>">>   \* a result not computed yet

(***************************************************************************)
(* C string helpers                                                        *)
(***************************************************************************)
\* tolower() on the characters the model uses
ToLower(c) ==
  CASE c = "H" -> "h" [] c = "E" -> "e" [] c = "L" -> "l" [] c = "P" -> "p"
    [] c = "I" -> "i" [] c = "N" -> "n" [] c = "D" -> "d" [] c = "X" -> "x"
    [] c = "M" -> "m" [] OTHER -> c

\* the suffix of s that starts at position i (the C expression s + (i-1))
From(s, i) == SubSeq(s, i, Len(s))

Min(a, b) == IF a < b THEN a ELSE b

\* mutt_strn_equal(a, b, n): strncmp(a, b, n) == 0
mutt_strn_equal(a, b, n) ==
  LET la == Min(Len(a), n)
      lb == Min(Len(b), n)
  IN  la = lb /\ \A k \in 1..la : a[k] = b[k]

\* mutt_istrn_equal(a, b, n): strncasecmp(a, b, n) == 0
mutt_istrn_equal(a, b, n) ==
  LET la == Min(Len(a), n)
      lb == Min(Len(b), n)
  IN  la = lb /\ \A k \in 1..la : ToLower(a[k]) = ToLower(b[k])

\* mutt_istr_equal(a, b): strcasecmp(NONULL(a), NONULL(b)) == 0
mutt_istr_equal(a, b) ==
  Len(a) = Len(b) /\ \A k \in 1..Len(a) : ToLower(a[k]) = ToLower(b[k])

\* strchr(s + (from-1), c): position of the first c at or after from, 0 if none
StrChr(s, from, c) ==
  LET hits == {k \in from..Len(s) : s[k] = c}
  IN  IF hits = {} THEN 0 ELSE CHOOSE k \in hits : \A j \in hits : k <= j

\* strrchr(s + (from-1), c): position of the last c at or after from, 0 if none
StrRChr(s, from, c) ==
  LET hits == {k \in from..Len(s) : s[k] = c}
  IN  IF hits = {} THEN 0 ELSE CHOOSE k \in hits : \A j \in hits : k >= j

(***************************************************************************)
(* HelpDocFlags                                                            *)
(***************************************************************************)
HELP_DOC_UNKNOWN == 0
HELP_DOC_INDEX   == 1
HELP_DOC_ROOTDOC == 2
HELP_DOC_CHAPTER == 4
HELP_DOC_SECTION == 8

\* (type & flag) != 0, for a single-bit flag
HasFlag(type, flag) == (type \div flag) % 2 = 1

(***************************************************************************)
(* help_file_type                                                          *)
(***************************************************************************)
DotMd == <<".", "m", "d">>
SlashIndexMd == <<"/", "i", "n", "d", "e", "x", ".", "m", "d">>

HelpFileType(file) ==
  LET l == Len(file)
      m == Len(C_HelpDocDir)
  IN
  IF (l < 5) \/ (m = 0) \/ (l <= m) THEN HELP_DOC_UNKNOWN
  ELSE
    LET p  == m + 1                      \* p = file + m
        q0 == l - 2                      \* q = file + l - 3
    IN
    IF ~mutt_istrn_equal(From(file, q0), DotMd, 3)
         \/ ~mutt_strn_equal(file, C_HelpDocDir, m)
    THEN HELP_DOC_UNKNOWN
    ELSE
      LET q    == StrRChr(file, p, "/")  \* q = strrchr(p, '/'), may be NULL
          qstr == IF q = 0 THEN <<>> ELSE From(file, q)
          type == IF mutt_istr_equal(qstr, SlashIndexMd)
                  THEN HELP_DOC_INDEX ELSE 0
          p2   == StrChr(file, p + 1, "/") \* p = strchr(p + 1, '/')
      IN
      IF p = q THEN type + HELP_DOC_ROOTDOC
      ELSE IF p2 = q THEN type + HELP_DOC_CHAPTER
      ELSE type + HELP_DOC_SECTION

(***************************************************************************)
(* help_file_header                                                        *)
(***************************************************************************)
Mark == <<"-", "-", "-">>

IsSpace(c) == c \in {" ", "\t"}

\* strpbrk(s, ": \t"): position of the first ':', ' ' or tab, 0 if none
StrPBrk(s) ==
  LET hits == {k \in 1..Len(s) : s[k] \in {":", " ", "\t"}}
  IN  IF hits = {} THEN 0 ELSE CHOOSE k \in hits : \A j \in hits : k <= j

\* mutt_str_remove_trailing_ws
RECURSIVE RemoveTrailingWs(_)
RemoveTrailingWs(s) ==
  IF s # <<>> /\ IsSpace(s[Len(s)])
  THEN RemoveTrailingWs(SubSeq(s, 1, Len(s) - 1)) ELSE s

\* mutt_str_skip_whitespace
RECURSIVE SkipWhitespace(_)
SkipWhitespace(s) ==
  IF s # <<>> /\ IsSpace(s[1]) THEN SkipWhitespace(Tail(s)) ELSE s

\* mutt_path_basename: what follows the last '/', the whole path if there is none
Basename(path) == From(path, StrRChr(path, 1, "/") + 1)

\* a cap that is never taken for reached
AtCap_Never(limit) == FALSE

\* line 424: limit == 0, the cap on the header lines is reached
AtCap(limit) == limit = 0

\* The while loop of help_file_header from line i of the file on.  Yields
\* [endmark, list, count] as they stand when the loop is left.
RECURSIVE HeaderLoop(_, _, _, _, _)
HeaderLoop(lines, i, limit, list, count) ==
  IF i > Len(lines)                      \* mutt_file_read_line() == NULL
  THEN [endmark |-> FALSE, list |-> list, count |-> count]
  ELSE
    LET p == lines[i]
        q == StrPBrk(p)
    IN
    IF p = Mark                          \* endmark = mutt_str_equal(p, mark)
    THEN [endmark |-> TRUE, list |-> list, count |-> count]
    ELSE IF q = 0                        \* strpbrk(p, ": \t") == NULL
    THEN [endmark |-> FALSE, list |-> list, count |-> count]
    ELSE IF AtCap(limit)
    THEN HeaderLoop(lines, i + 1, limit, list, count)
    ELSE IF q = 1 \/ p[q] # ":"          \* (p == q) || (*q != ':')
    THEN HeaderLoop(lines, i + 1, limit, list, count)
    ELSE
      LET t    == RemoveTrailingWs(p)
          item == [key |-> SubSeq(p, 1, q - 1),
                   val |-> SkipWhitespace(From(t, q + 1))]
      IN  HeaderLoop(lines, i + 1, limit - 1, Append(list, item), count + 1)

\* lines 439-448 without the test of endmark: the entries read so far are
\* handed out also when the closing mark is missing
HeaderResult_Partial(r) ==
  [rc |-> r.count, set |-> TRUE, fhdr |-> r.list]

\* lines 439-450: what the function hands back once the loop is left
HeaderResult(r) ==
  IF ~r.endmark
  THEN [rc |-> -4, set |-> FALSE, fhdr |-> <<>>]
  ELSE [rc |-> r.count, set |-> TRUE, fhdr |-> r.list]

\* help_file_header(&fhdr, file, max).  rc is the return value; set tells
\* whether *fhdr was assigned and fhdr is the list assigned (<<>> is NULL).
HelpFileHeader(file, max) ==
  LET bfn   == Basename(file.name)
      ext   == StrRChr(bfn, 1, ".")
      unset == [rc |-> 0, set |-> FALSE, fhdr |-> <<>>]
  IN
  IF ext = 1 \/ ~mutt_istrn_equal(IF ext = 0 THEN <<>> ELSE From(bfn, ext), DotMd, 3)
  THEN [unset EXCEPT !.rc = -1]
  ELSE IF ~file.readable
  THEN [unset EXCEPT !.rc = -2]
  ELSE IF file.lines = <<>> \/ file.lines[1] # Mark
  THEN [unset EXCEPT !.rc = -3]
  ELSE
    LET limit == IF max < 0 THEN -1 ELSE max
    IN  HeaderResult(HeaderLoop(file.lines, 2, limit, <<>>, 0))

(***************************************************************************)
(* help_path_transpose, help_path_probe                                    *)
(***************************************************************************)
Scheme    == <<"h", "e", "l", "p">>
SchemeSep == <<"h", "e", "l", "p", ":", "/", "/">>

NUL == "<NUL>"   \* the terminating '\0' of a C string

\* path[j] for a 0-based offset j
CharAt(path, j) == IF j + 1 <= Len(path) THEN path[j + 1] ELSE NUL

\* strspn(s, "/"): length of the leading run of slashes
RECURSIVE SpanSlashes(_)
SpanSlashes(s) ==
  IF s # <<>> /\ s[1] = "/" THEN 1 + SpanSlashes(Tail(s)) ELSE 0

\* the loop of lines 615-616 left out: trailing slashes stay
StripTo_None(result, i, j) == j

\* while ((i < j) && (result[j - 1] == '/')) j--;
RECURSIVE StripTo(_, _, _)
StripTo(result, i, j) ==
  IF i < j /\ result[j] = "/" THEN StripTo(result, i, j - 1) ELSE j

\* help_path_transpose(path, validate); exists is the outcome of realpath(fqp)
HelpPathTranspose(path, validate, exists) ==
  IF path = <<>> THEN NULL
  ELSE
    LET docdir == C_HelpDocDir
        js     == Len(Scheme)
        jd     == Len(docdir)
        isUrl  == mutt_strn_equal(path, Scheme, js)
        isFqp  == ~isUrl /\ mutt_strn_equal(path, docdir, jd)
    IN
    IF isUrl /\ CharAt(path, js) \notin {":", NUL} THEN NULL
    ELSE IF isFqp /\ CharAt(path, jd) \notin {"/", NUL} THEN NULL
    ELSE IF ~isUrl /\ ~isFqp THEN NULL
    ELSE
      LET j0     == IF isUrl
                    THEN (IF CharAt(path, js) = ":" THEN js + 1 ELSE js)
                    ELSE jd
          i      == IF isUrl THEN Len(docdir) ELSE Len(Scheme) + 3
          j      == j0 + SpanSlashes(From(path, j0 + 1))
          rest   == From(path, j + 1)
          fqp    == docdir \o <<"/">> \o rest
          url    == SchemeSep \o rest
          result == IF isUrl THEN fqp ELSE url
      IN
      IF validate /\ ~exists THEN NULL
      ELSE SubSeq(result, 1, StripTo(result, i, Len(result)))

\* help_path_probe(path, st) == MUTT_HELP
HelpPathProbe(path) == mutt_istrn_equal(path, SchemeSep, 7)

(***************************************************************************)
(* The directory tree.  An entry is [name, type, readable, lines, entries]:*)
(* readable says whether a file can be opened for reading, or a directory  *)
(* with opendir(); lines is a file's content, entries a directory's        *)
(* entries in the order readdir() returns them.                            *)
(***************************************************************************)
Missing == [name |-> <<>>, type |-> "DET_NONE", readable |-> FALSE,
            lines |-> <<>>, entries |-> <<>>]

\* the entry called name in directory dir, Missing if there is none
Lookup(dir, name) ==
  LET hits == {k \in 1..Len(dir.entries) : dir.entries[k].name = name}
  IN  IF dir.type # "DET_DIR" \/ hits = {} THEN Missing
      ELSE dir.entries[CHOOSE k \in hits : TRUE]

\* the entry that the path "/seg/seg..." below directory dir names
RECURSIVE ResolveIn(_, _)
ResolveIn(dir, rest) ==
  IF rest = <<>> THEN dir
  ELSE IF rest[1] # "/" THEN Missing
  ELSE
    LET nxt  == StrChr(rest, 2, "/")
        name == IF nxt = 0 THEN Tail(rest) ELSE SubSeq(rest, 2, nxt - 1)
        more == IF nxt = 0 THEN <<>> ELSE From(rest, nxt)
    IN  ResolveIn(Lookup(dir, name), more)

\* the entry an absolute path names; fs is the directory /d
Resolve(path) ==
  IF Len(path) >= 2 /\ SubSeq(path, 1, 2) = <<"/", "d">>
       /\ CharAt(path, 2) \in {"/", NUL}
  THEN ResolveIn(fs, From(path, 3))
  ELSE Missing

\* mutt_path_concat(d, dir, fname, l)
PathConcat(dir, fname) ==
  IF fname = <<>> THEN dir
  ELSE IF dir = <<>> THEN fname
  ELSE IF dir[Len(dir)] = "/" THEN dir \o fname
  ELSE dir \o <<"/">> \o fname

(***************************************************************************)
(* help_dir_scan.  A filter callback is [null, skip, abort]: null says     *)
(* that no callback is given, skip holds the paths it answers with a       *)
(* positive value, abort the paths it answers with a negative one.  Yields *)
(* the return value, the paths handed to gather() in the order of the      *)
(* calls, and the paths of the directories the call and the calls below it *)
(* tried to open.                                                          *)
(***************************************************************************)
NoFilter == [null |-> TRUE, skip |-> {}, abort |-> {}]

\* filter ? filter(ep, abspath, flag) : 0
FilterRc(filter, abspath) ==
  IF filter.null THEN 0
  ELSE IF abspath \in filter.abort THEN -1
  ELSE IF abspath \in filter.skip THEN 1
  ELSE 0

\* a step of the directory stream at which readdir() fails: it returns NULL
\* and sets errno, and the stream goes on with the next step
ReaddirErr == [name |-> <<"!">>, type |-> "READDIR_ERR", readable |-> FALSE,
               lines |-> <<>>, entries |-> <<>>]

ScanNothing == [gathered |-> <<>>, walked |-> <<>>]

\* a readdir() error that ends the enumeration as the end of the stream does
OnReaddirError_Break(rest) == ScanNothing

\* lines 666-673: readdir() failed with errno set, the loop goes on
OnReaddirError(rest) == rest

\* a positive answer of the filter that is taken for zero
FilterSkips_Never(rc) == FALSE

\* lines 690-691: a positive answer skips the entry and its recursion
FilterSkips(rc) == 0 < rc

RECURSIVE HelpDirScan(_, _, _, _)
RECURSIVE ScanEntries(_, _, _, _, _, _)

\* the while loop of help_dir_scan from step k of the directory stream on
ScanEntries(curpath, entries, k, recursive, mask, filter) ==
  IF k > Len(entries) THEN ScanNothing   \* readdir() == NULL, end of stream
  ELSE
    LET ep   == entries[k]
        np   == ep.name
        rest == ScanEntries(curpath, entries, k + 1, recursive, mask, filter)
    IN
    IF ep.type = "READDIR_ERR" THEN OnReaddirError(rest)
    ELSE IF np = <<>> \/ np = <<".">> \/ np = <<".", ".">> THEN rest
    ELSE
      LET abspath == PathConcat(curpath, np)
          flag    == ep.type             \* help_dirent_type(ep, abspath, true)
          rc      == IF flag \in mask THEN FilterRc(filter, abspath) ELSE 0
          own     == IF flag \in mask THEN <<abspath>> ELSE <<>>
          below   == IF flag = "DET_DIR" /\ recursive
                     THEN HelpDirScan(abspath, recursive, mask, filter)
                     ELSE [rc |-> 0, gathered |-> <<>>, walked |-> <<>>]
      IN
      IF rc < 0 THEN ScanNothing         \* break: handler wants to abort
      ELSE IF FilterSkips(rc) THEN rest  \* continue
      ELSE [gathered |-> own \o below.gathered \o rest.gathered,
            walked   |-> below.walked \o rest.walked]

HelpDirScan(path, recursive, mask, filter) ==
  LET dp == Resolve(path)                \* opendir(realpath(path))
  IN
  IF dp.type # "DET_DIR" \/ ~dp.readable
  THEN [rc |-> -1, gathered |-> <<>>, walked |-> <<path>>]
  ELSE
    LET r == ScanEntries(path, dp.entries, 1, recursive, mask, filter)
    IN  [rc |-> 0, gathered |-> r.gathered, walked |-> <<path>> \o r.walked]

(***************************************************************************)
(* help_doc_from, help_doc_gather                                          *)
(***************************************************************************)
HELP_CACHE_DOCLIST == 1
HELP_FHDR_MAXLINES == -1
HELP_LINK_CHAPTERS == 0

\* help_doc_from(file): <<>> is NULL, <<doc>> the new document.  msgid is the
\* message id help_doc_msg_id() draws; the caller passes a token no other
\* document of the list holds.
HelpDocFrom(file, msgid) ==
  LET type == HelpFileType(file)
      e    == Resolve(file)
      hdr  == HelpFileHeader([name |-> file,
                              readable |-> e.type = "DET_REG" /\ e.readable,
                              lines |-> e.lines], HELP_FHDR_MAXLINES)
  IN
  IF type = HELP_DOC_UNKNOWN THEN <<>>
  ELSE IF hdr.fhdr = <<>> \/ hdr.rc < 1 THEN <<>>
  ELSE << [index |-> 0,
           path |-> From(file, Len(C_HelpDocDir) + 2),
           read |-> TRUE,
           type |-> type,
           message_id |-> msgid,
           references |-> <<>>] >>

\* help_doc_gather() over the paths a scan gathered: the list of documents
RECURSIVE GatherDocs(_, _, _)
GatherDocs(paths, k, list) ==
  IF k > Len(paths) THEN list
  ELSE GatherDocs(paths, k + 1,
                  list \o HelpDocFrom(paths[k],
                                      Len(DocList.data) + Len(list) + 1))

(***************************************************************************)
(* help_list_get, help_list_sort, help_doc_type_cmp, help_doc_uplink       *)
(***************************************************************************)
\* help_list_get(list, index, NULL): <<>> is NULL
HelpListGet(list, index) ==
  IF index >= Len(list) THEN <<>> ELSE <<list[index + 1]>>

\* help_doc_type_cmp with the operands of the two comparisons swapped
HelpDocTypeCmp_Ascending(e1, e2) ==
  (IF e1.type > e2.type THEN 1 ELSE 0) - (IF e1.type < e2.type THEN 1 ELSE 0)

HelpDocTypeCmp(e1, e2) ==
  (IF e1.type < e2.type THEN 1 ELSE 0) - (IF e1.type > e2.type THEN 1 ELSE 0)

\* qsort(): every arrangement of the list that the comparison accepts; the
\* order of elements that compare equal is unspecified
HelpListSort(list) ==
  LET n     == Len(list)
      perms == {f \in [1..n -> 1..n] : \A i, j \in 1..n : i # j => f[i] # f[j]}
      arr   == {[k \in 1..n |-> list[f[k]]] : f \in perms}
  IN  {s \in arr : \A i, j \in 1..n : i < j => HelpDocTypeCmp(s[i], s[j]) <= 0}

\* help_doc_uplink with the two documents mixed up: the source refers to itself
HelpDocUplink_Self(target, source) ==
  IF target = <<>> THEN source
  ELSE [source EXCEPT !.references = Append(@, source.message_id)]

\* help_doc_uplink(target, source): the source afterwards; target is <<>> or <<doc>>
HelpDocUplink(target, source) ==
  IF target = <<>> THEN source
  ELSE [source EXCEPT !.references = Append(@, target[1].message_id)]

(***************************************************************************)
(* help_read_dir                                                           *)
(***************************************************************************)
\* lines 912-916: the documents found directly in path, <<>> when the scan
\* fails or finds none
ReadDirList(path) ==
  LET scan == HelpDirScan(path, FALSE, {"DET_REG"}, NoFilter)
  IN  IF scan.rc # 0 THEN <<>> ELSE GatherDocs(scan.gathered, 1, <<>>)

\* the loop of lines 941-948 without the assignment to Email::index
RECURSIVE AppendBatch_NoIndex(_, _, _, _)
AppendBatch_NoIndex(data, top, sorted, i) ==
  IF i > Len(sorted) THEN data
  ELSE AppendBatch_NoIndex(Append(data, HelpDocUplink(<<top>>, sorted[i])),
                           top, sorted, i + 1)

\* the loop of lines 941-948 without the call of help_doc_uplink()
RECURSIVE AppendBatch_Unlinked(_, _, _, _)
AppendBatch_Unlinked(data, top, sorted, i) ==
  IF i > Len(sorted) THEN data
  ELSE AppendBatch_Unlinked(Append(data, [sorted[i] EXCEPT !.index = Len(data)]),
                            top, sorted, i + 1)

\* lines 937-948: append the top document, then uplink and append the others
RECURSIVE AppendBatch(_, _, _, _)
AppendBatch(data, top, sorted, i) ==
  IF i > Len(sorted) THEN data
  ELSE
    LET cur == HelpDocUplink(<<top>>, sorted[i])
    IN  AppendBatch(Append(data, [cur EXCEPT !.index = Len(data)]),
                    top, sorted, i + 1)

\* help_read_dir that makes the top document of a section the uplink target
\* too, as it does for a chapter
LinkBatch_SectionAnchors(sorted, data, uplink) ==
  LET top0 == sorted[1]
      top1 == IF HasFlag(top0.type, HELP_DOC_SECTION)
              THEN HelpDocUplink(HelpListGet(data, uplink), top0) ELSE top0
      top  == [top1 EXCEPT !.index = Len(data)]
  IN  [data   |-> AppendBatch(Append(data, top), top, sorted, 2),
       uplink |-> IF HasFlag(top0.type, HELP_DOC_ROOTDOC) THEN 0 ELSE Len(data)]

\* lines 921-948 on the sorted list: the new [data, uplink]
LinkBatch(sorted, data, uplink) ==
  LET top0 == sorted[1]
      up   == IF HasFlag(top0.type, HELP_DOC_CHAPTER) THEN Len(data)
              ELSE IF HasFlag(top0.type, HELP_DOC_SECTION) THEN uplink
              ELSE 0
      top1 == IF HasFlag(top0.type, HELP_DOC_CHAPTER)
              THEN (IF HELP_LINK_CHAPTERS # 0
                    THEN HelpDocUplink(HelpListGet(data, 0), top0) ELSE top0)
              ELSE IF HasFlag(top0.type, HELP_DOC_SECTION)
              THEN HelpDocUplink(HelpListGet(data, uplink), top0)
              ELSE top0
      top  == [top1 EXCEPT !.index = Len(data)]
  IN  [data   |-> AppendBatch(Append(data, top), top, sorted, 2),
       uplink |-> up]

\* lines 914-916 with the uplink target forgotten when nothing was found
SkipBatch_DropsAnchor(data, uplink) == [data |-> data, uplink |-> 0]

\* lines 914-916: the scan failed or found no document, return
SkipBatch(data, uplink) == [data |-> data, uplink |-> uplink]

\* help_read_dir on the list its scan gathered: the [data, uplink] it may
\* leave behind, one for every arrangement help_list_sort() may produce
HelpReadDirOn(list, data, uplink) ==
  IF list = <<>> THEN {SkipBatch(data, uplink)}
  ELSE {LinkBatch(sorted, data, uplink) : sorted \in HelpListSort(list)}

(***************************************************************************)
(* help_checksum_md5, help_docdir_changed                                  *)
(***************************************************************************)
\* the MD5 digest of a string, as text: distinct strings have distinct
\* digests, and no digest is the empty string
HelpChecksumMd5(string) == <<"md5">> \o string

\* help_docdir_changed that always asks for a rebuild
HelpDocdirChanged_Always == TRUE

HelpDocdirChanged == DocDirID # HelpChecksumMd5(C_HelpDocDir)

(***************************************************************************)
(* The directory trees of the index specification                          *)
(***************************************************************************)
KeyValue == <<"k", ":", " ", "v">>
GoodLines == <<Mark, KeyValue, Mark>>
BadLines  == <<Mark, KeyValue>>          \* no closing mark

XMd     == <<"x", ".", "m", "d">>
YMd     == <<"y", ".", "m", "d">>
IndexMd == <<"i", "n", "d", "e", "x", ".", "m", "d">>

FileEntry(name, lines) ==
  [name |-> name, type |-> "DET_REG", readable |-> TRUE,
   lines |-> lines, entries |-> <<>>]

DirEntry(name, open, entries) ==
  [name |-> name, type |-> "DET_DIR", readable |-> open,
   lines |-> <<>>, entries |-> entries]

\* the regular files of a directory of the given kind, in readdir() order
Files(kind) ==
  CASE kind = "F1" -> <<FileEntry(XMd, GoodLines)>>
    [] kind = "F2" -> <<FileEntry(XMd, GoodLines), FileEntry(IndexMd, GoodLines)>>
    [] kind = "F3" -> <<FileEntry(XMd, GoodLines), FileEntry(YMd, GoodLines)>>
    [] kind = "FB" -> <<FileEntry(XMd, BadLines)>>
    [] OTHER -> <<>>                     \* "F0": empty, "FX": cannot be opened

\* the directories s, s/s, ... nested below /d/a, one kind per depth
RECURSIVE ChainDir(_, _)
ChainDir(k, kinds) ==
  DirEntry(<<"s">>, kinds[k] # "FX",
           Files(kinds[k]) \o
             (IF k < Len(kinds) THEN <<ChainDir(k + 1, kinds)>> ELSE <<>>))

FsParams ==
  [rootFiles : {"F0", "F1"}, rootOpen : BOOLEAN,
   a : {"FB", "F2"}, b : {"F0", "F3"}, aFirst : BOOLEAN,
   chain : [1..(MaxDepth - 1) -> {"F0", "F1", "FX"}]]

Tree(fp) ==
  LET a == DirEntry(<<"a">>, TRUE, Files(fp.a) \o <<ChainDir(1, fp.chain)>>)
      b == DirEntry(<<"b">>, TRUE, Files(fp.b))
  IN  DirEntry(<<"d">>, fp.rootOpen,
               Files(fp.rootFiles) \o
                 (IF fp.aFirst THEN <<a, b>> ELSE <<b, a>>))

\* the paths $help_doc_dir is set to
RootD  == <<"/", "d">>
RootDA == <<"/", "d", "/", "a">>
Roots  == {RootD, RootDA}

(***************************************************************************)
(* Inputs of the classifier specification                                  *)
(***************************************************************************)
RECURSIVE Segs(_)
\* the directory runs "/a", "/a/a", ... of n segments, and the empty run
Segs(n) == IF n = 0 THEN <<>> ELSE <<"/", "a">> \o Segs(n - 1)

TypeRoots == {<<>>, RootD, RootDA}

TypePrefixes ==
  {<<>>, RootD, RootD \o <<"X">>, RootD \o <<"/">>, <<"/", "e">>}

TypeNames ==
  { <<>>,
    <<"/", "x", ".", "m", "d">>,
    <<"/", "x", ".", "M", "D">>,
    <<"/", "i", "n", "d", "e", "x", ".", "m", "d">>,
    <<"/", "I", "n", "d", "e", "x", ".", "m", "d">>,
    <<"/", "x", "i", "n", "d", "e", "x", ".", "m", "d">>,
    <<"/", "x", ".", "t", "x", "t">>,
    <<"/", ".", "m", "d">>,
    <<"x", ".", "m", "d">>,
    <<".", "m", "d">> }

TypeFiles ==
  { pre \o Segs(n) \o name :
      pre \in TypePrefixes, n \in 0..MaxSegs, name \in TypeNames }

(***************************************************************************)
(* The variables of each specification at rest                             *)
(***************************************************************************)
NoBatch == [path |-> <<>>, list |-> <<>>, base |-> 0, uplink |-> 0]

IdxIdle ==
  /\ fs = Missing
  /\ batch = NoBatch
  /\ DocList = [null |-> TRUE, data |-> <<>>]
  /\ DocDirID = <<>>
  /\ UpLink = 0
  /\ pending = <<>>
  /\ init_rc = 0
  /\ walked = FALSE
  /\ op = "none"
  /\ lastRoot = <<>>
  /\ prev = [root |-> <<>>, id |-> <<>>, present |-> FALSE]

TypeIdle ==
  /\ ft_file = <<>>
  /\ ft_done = FALSE
  /\ ft_ret = HELP_DOC_UNKNOWN

HdrIdle ==
  /\ fh_file = [name |-> <<>>, readable |-> FALSE, lines |-> <<>>]
  /\ fh_max = 0
  /\ fh_done = FALSE
  /\ fh_ret = [rc |-> 0, set |-> FALSE, fhdr |-> <<>>]

PathIdle ==
  /\ pt_path = <<>>
  /\ pt_validate = FALSE
  /\ pt_exists = FALSE
  /\ pt_out = Unset
  /\ pt_back = Unset

ScanIdle ==
  /\ sc_path = <<>>
  /\ sc_recursive = FALSE
  /\ sc_mask = {}
  /\ sc_filter = NoFilter
  /\ sc_done = FALSE
  /\ sc_ret = [rc |-> 0, gathered |-> <<>>, walked |-> <<>>]

\* a Mailbox no help function has touched yet
NewMailbox ==
  [pathbuf |-> <<>>, realpath |-> <<>>, readonly |-> FALSE, msg_count |-> 0,
   emails |-> <<>>]

BoxIdle ==
  /\ mbox = NewMailbox
  /\ mx_rc = 0

HtsIdle ==
  /\ C_HideThreadSubject = FALSE
  /\ Backup_HTS = FALSE
  /\ boxes = <<>>
  /\ hts_first = FALSE

WalkIdle ==
  /\ wk_state = "idle"
  /\ wk_stack = <<>>
  /\ wk_open = 0
  /\ wk_gathered = <<>>
  /\ wk_rc = 0

SubjIdle ==
  /\ sj_fhdr = <<>>
  /\ sj_keys = <<>>
  /\ sj_p = 0
  /\ sj_l = 0
  /\ sj_subject = Unset
  /\ sj_calls = <<>>
  /\ sj_done = FALSE

(***************************************************************************)
(* Spec: the document index cache                                          *)
(***************************************************************************)
Init ==
  /\ C_HelpDocDir \in Roots
  /\ fs \in {Tree(fp) : fp \in FsParams}
  /\ DocList = [null |-> TRUE, data |-> <<>>]
  /\ DocDirID = <<>>
  /\ UpLink = 0
  /\ pending = <<>>
  /\ init_rc = 0
  /\ walked = FALSE
  /\ op = "none"
  /\ lastRoot = <<>>
  /\ prev = [root |-> <<>>, id |-> <<>>, present |-> FALSE]
  /\ batch = NoBatch
  /\ TypeIdle /\ HdrIdle /\ PathIdle /\ ScanIdle /\ BoxIdle
  /\ HtsIdle /\ WalkIdle /\ SubjIdle

Task(t, path) == [t |-> t, path |-> path]

RECURSIVE ReadTasks(_, _)
ReadTasks(paths, k) ==
  IF k > Len(paths) THEN <<>>
  ELSE <<Task("read", paths[k])>> \o ReadTasks(paths, k + 1)

\* help_doclist_init(): the cache check; on a miss help_doclist_free(), the
\* new DocList, and the calls the function goes on to make: help_read_dir()
\* of the root, help_docdir_id(), and help_read_dir() of every directory that
\* the recursive help_dir_scan() hands to help_dir_gather().  after is what
\* the caller of help_doclist_init() does once it has returned.
DoclistInitCall(after) ==
  /\ pending = <<>>
  /\ op' = "init"
  /\ lastRoot' = C_HelpDocDir
  /\ prev' = [root |-> lastRoot, id |-> DocDirID, present |-> ~DocList.null]
  /\ IF (HELP_CACHE_DOCLIST # 0) /\ ~DocList.null /\ ~HelpDocdirChanged
     THEN /\ init_rc' = 0
          /\ walked' = FALSE
          /\ pending' = after
          /\ UNCHANGED <<DocList, DocDirID, UpLink>>
     ELSE LET scan == HelpDirScan(C_HelpDocDir, TRUE, {"DET_DIR"}, NoFilter)
          IN  /\ DocList' = [null |-> FALSE, data |-> <<>>]
              /\ DocDirID' = <<>>
              /\ UpLink' = 0
              /\ pending' = <<Task("read", C_HelpDocDir), Task("id", <<>>)>>
                              \o ReadTasks(scan.gathered, 1) \o after
              /\ init_rc' = scan.rc
              /\ walked' = TRUE
  /\ batch' = NoBatch
  /\ UNCHANGED <<C_HelpDocDir, fs, typeVars, hdrVars, pathVars, scanVars, boxVars,
                 walkVars, subjVars>>

HelpDoclistInit == DoclistInitCall(<<>>) /\ UNCHANGED htsVars

\* help_read_dir(path), called by help_doclist_init() or help_dir_gather().
\* batch notes the path, the list of documents as help_doc_gather() built it,
\* and the size of DocList and the value of UpLink before the call.
HelpReadDir ==
  /\ pending # <<>>
  /\ Head(pending).t = "read"
  /\ LET list == ReadDirList(Head(pending).path)
     IN  /\ \E r \in HelpReadDirOn(list, DocList.data, UpLink) :
                /\ DocList' = [DocList EXCEPT !.data = r.data]
                /\ UpLink' = r.uplink
         /\ batch' = [path |-> Head(pending).path, list |-> list,
                      base |-> Len(DocList.data), uplink |-> UpLink]
  /\ pending' = Tail(pending)
  /\ op' = "read"
  /\ UNCHANGED <<C_HelpDocDir, fs, DocDirID, init_rc, walked, lastRoot, prev,
                 typeVars, hdrVars, pathVars, scanVars, boxVars,
                 htsVars, walkVars, subjVars>>

\* help_docdir_id(C_HelpDocDir)
HelpDocdirId ==
  /\ pending # <<>>
  /\ Head(pending).t = "id"
  /\ DocDirID' = IF ~DocList.null
                 THEN HelpChecksumMd5(C_HelpDocDir) ELSE DocDirID
  /\ pending' = Tail(pending)
  /\ op' = "id"
  /\ batch' = NoBatch
  /\ UNCHANGED <<C_HelpDocDir, fs, DocList, UpLink, init_rc, walked, lastRoot,
                 prev, typeVars, hdrVars, pathVars, scanVars, boxVars,
                 htsVars, walkVars, subjVars>>

\* help_doclist_free()
HelpDoclistFree ==
  /\ pending = <<>>
  /\ DocList' = [null |-> TRUE, data |-> <<>>]
  /\ DocDirID' = <<>>
  /\ UpLink' = 0
  /\ op' = "free"
  /\ batch' = NoBatch
  /\ UNCHANGED <<C_HelpDocDir, fs, pending, init_rc, walked, lastRoot, prev,
                 typeVars, hdrVars, pathVars, scanVars, boxVars,
                 htsVars, walkVars, subjVars>>

\* the user sets $help_doc_dir to another path
SetHelpDocDir ==
  /\ pending = <<>>
  /\ C_HelpDocDir' \in Roots \ {C_HelpDocDir}
  /\ op' = "config"
  /\ batch' = NoBatch
  /\ UNCHANGED <<fs, DocList, DocDirID, UpLink, pending, init_rc, walked,
                 lastRoot, prev, typeVars, hdrVars, pathVars, scanVars, boxVars,
                 htsVars, walkVars, subjVars>>

\* the directory /d changes on disk between two calls: its permission to be
\* read is flipped, or the file x.md in it is created or removed
ChangeFiles ==
  /\ pending = <<>>
  /\ \/ fs' = [fs EXCEPT !.readable = ~@]
     \/ fs' = [fs EXCEPT !.entries =
                 IF @[1].type = "DET_REG" THEN Tail(@)
                 ELSE <<FileEntry(XMd, GoodLines)>> \o @]
  /\ op' = "files"
  /\ batch' = NoBatch
  /\ UNCHANGED <<C_HelpDocDir, DocList, DocDirID, UpLink, pending, init_rc,
                 walked, lastRoot, prev, typeVars, hdrVars, pathVars, scanVars, boxVars,
                 htsVars, walkVars, subjVars>>

Next ==
  \/ HelpDoclistInit
  \/ HelpReadDir
  \/ HelpDocdirId
  \/ HelpDoclistFree
  \/ SetHelpDocDir
  \/ ChangeFiles

Spec == Init /\ [][Next]_vars

\* the last step ended a call of help_doclist_init()
InitDone == pending = <<>> /\ op \in {"init", "read", "id"}

\* C1: of two consecutive help_doclist_init() calls with an index present,
\* the second one, if the root path is the one of the first call, scans no
\* directory and leaves DocList, DocDirID and UpLink as they were; if the root
\* path differs it drops the index, rebuilds, and the fingerprint stored by
\* the rebuild differs from the one before.
C1_CacheHitOrRebuild ==
  [][ /\ (op' = "init" /\ ~DocList.null /\ C_HelpDocDir = lastRoot) =>
           (~walked' /\ pending' = <<>> /\ DocList' = DocList
              /\ DocDirID' = DocDirID /\ UpLink' = UpLink)
      /\ (op' = "init" /\ ~DocList.null /\ C_HelpDocDir # lastRoot) =>
           (walked' /\ pending' # <<>> /\ DocList' = [null |-> FALSE, data |-> <<>>])
      /\ (op' = "id" /\ prev.present /\ prev.root # lastRoot) =>
           DocDirID' # prev.id
    ]_vars

\* reached: a call answered from the cache although the file the first
\* document was read from is gone by now
C1_Witness ==
  /\ op = "init" /\ ~walked /\ prev.present /\ prev.root = lastRoot
  /\ DocList.data # <<>>
  /\ DocList.data[1].path = XMd
  /\ Resolve(PathConcat(C_HelpDocDir, XMd)) = Missing

\* C2: when help_doclist_init() returns the error of a root directory that
\* cannot be opened, it leaves no index and fingerprint behind that a later
\* call takes for a valid cached result.
CacheValid ==
  (HELP_CACHE_DOCLIST # 0) /\ ~DocList.null /\ ~HelpDocdirChanged

C2_FailedInitLeavesNoCache ==
  (InitDone /\ walked /\ init_rc = -1) => ~CacheValid

\* C3: every document of DocList has its index field equal to its offset.
C3_IndexIsOffset ==
  \A i \in 1..Len(DocList.data) : DocList.data[i].index = i - 1

\* reached: a second batch was appended behind a first one
C3_Witness ==
  /\ Len(DocList.data) >= 4
  /\ DocList.data[4].index = 3
  /\ pending # <<>>

\* C4: a parent reference of a document is the identifier of a document at a
\* smaller position of DocList, and of no document at its own or a later one.
C4_ParentIsEarlier ==
  \A i \in 1..Len(DocList.data) :
    \A k \in 1..Len(DocList.data[i].references) :
      LET ref == DocList.data[i].references[k]
      IN  /\ \E j \in 1..(i - 1) : DocList.data[j].message_id = ref
          /\ \A j \in i..Len(DocList.data) : DocList.data[j].message_id # ref

\* reached: a section's top document refers to a document of another batch,
\* and a later document refers to that section's top document
C4_Witness ==
  \E i, j \in 1..Len(DocList.data) :
    /\ i + 1 < j
    /\ HasFlag(DocList.data[j].type, HELP_DOC_SECTION)
    /\ DocList.data[j].references = <<DocList.data[i].message_id>>
    /\ HasFlag(DocList.data[i].type, HELP_DOC_CHAPTER)

\* C5: after a full rebuild with HELP_LINK_CHAPTERS off, for every chapter
\* directory with a valid document and every directory below it (reached
\* through directories that can be read) with a valid document: the top
\* document of the chapter directory has no parent, and the top document of
\* the nested directory has the chapter top document's identifier as parent.
SubDirs(path, node) ==
  IF node.type # "DET_DIR" \/ ~node.readable THEN {}
  ELSE {PathConcat(path, node.entries[k].name) :
          k \in {n \in 1..Len(node.entries) : node.entries[n].type = "DET_DIR"}}

RECURSIVE DirsBelow(_, _)
DirsBelow(path, depth) ==
  IF depth = 0 THEN {}
  ELSE LET subs == SubDirs(path, Resolve(path))
       IN  subs \cup UNION {DirsBelow(d, depth - 1) : d \in subs}

\* the documents of DocList that lie directly in directory dir
DocsOf(dir) ==
  {i \in 1..Len(DocList.data) :
     LET abs == PathConcat(C_HelpDocDir, DocList.data[i].path)
     IN  SubSeq(abs, 1, StrRChr(abs, 1, "/") - 1) = dir}

\* <<>> or <<the first document of DocList that lies directly in dir>>
TopOf(dir) ==
  IF DocsOf(dir) = {} THEN <<>>
  ELSE <<DocList.data[CHOOSE i \in DocsOf(dir) : \A j \in DocsOf(dir) : i <= j]>>

HoldsValidDoc(dir) == ReadDirList(dir) # <<>>

TypeInit ==
  /\ C_HelpDocDir \in TypeRoots
  /\ ft_file \in TypeFiles
  /\ ft_done = FALSE
  /\ ft_ret = HELP_DOC_UNKNOWN
  /\ IdxIdle /\ HdrIdle /\ PathIdle /\ ScanIdle /\ BoxIdle
  /\ HtsIdle /\ WalkIdle /\ SubjIdle

CallHelpFileType ==
  /\ ~ft_done
  /\ ft_done' = TRUE
  /\ ft_ret' = HelpFileType(ft_file)
  /\ UNCHANGED <<C_HelpDocDir, ft_file, idxVars, hdrVars, pathVars, scanVars, boxVars,
                 htsVars, walkVars, subjVars>>

TypeNext == CallHelpFileType

SpecType == TypeInit /\ [][TypeNext]_vars

\* C6: for every path ending in the document extension and every configured
\* root, help_file_type yields Unknown exactly when the path is not strictly
\* longer than the root or does not start with the root followed by '/'.
EndsInDotMd(file) ==
  Len(file) >= 3 /\ mutt_istr_equal(From(file, Len(file) - 2), DotMd)

StartsWithRootSlash(file) ==
  LET r == C_HelpDocDir \o <<"/">>
  IN  Len(file) >= Len(r) /\ SubSeq(file, 1, Len(r)) = r

C6_UnknownIffNotBelowRoot ==
  (ft_done /\ C_HelpDocDir # <<>> /\ EndsInDotMd(ft_file)) =>
    ((ft_ret = HELP_DOC_UNKNOWN) <=>
       (~(Len(ft_file) > Len(C_HelpDocDir)) \/ ~StartsWithRootSlash(ft_file)))

\* C7: for every path classified as non-Unknown the number of directory
\* segments between the root and the file name decides the level: none gives
\* RootDoc, one gives Chapter, two or more give Section, and exactly one of
\* the three level flags is set.
RECURSIVE CountSlashes(_)
CountSlashes(s) ==
  IF s = <<>> THEN 0
  ELSE (IF s[1] = "/" THEN 1 ELSE 0) + CountSlashes(Tail(s))

\* the directory segments between the root and the file name: every '/'
\* behind the root ends one, but for the '/' in front of the file name
DirSegments(file) ==
  LET n == CountSlashes(From(file, Len(C_HelpDocDir) + 1))
  IN  IF n = 0 THEN 0 ELSE n - 1

LevelFlags(type) ==
  {f \in {HELP_DOC_ROOTDOC, HELP_DOC_CHAPTER, HELP_DOC_SECTION} : HasFlag(type, f)}

C7_LevelFromDepth ==
  (ft_done /\ ft_ret # HELP_DOC_UNKNOWN) =>
    LevelFlags(ft_ret) =
      {IF DirSegments(ft_file) = 0 THEN HELP_DOC_ROOTDOC
       ELSE IF DirSegments(ft_file) = 1 THEN HELP_DOC_CHAPTER
       ELSE HELP_DOC_SECTION}

(***************************************************************************)
(* SpecHdr: help_file_header on one file                                   *)
(***************************************************************************)
HdrLineSet ==
  { Mark,
    <<>>,
    KeyValue,
    <<"k", ":", "v", " ">>,
    <<"w">>,
    <<":", " ", "v">>,
    <<"a", " ", "b", ":", "c">> }

HdrFiles ==
  [name : {XMd, <<"x", ".", "t", "x", "t">>},
   readable : BOOLEAN,
   lines : UNION {[1..n -> HdrLineSet] : n \in 0..MaxLines}]

HdrInit ==
  /\ C_HelpDocDir = RootD
  /\ fh_file \in HdrFiles
  /\ fh_max \in {-1, 0, 1}
  /\ fh_done = FALSE
  /\ fh_ret = [rc |-> 0, set |-> FALSE, fhdr |-> <<>>]
  /\ IdxIdle /\ TypeIdle /\ PathIdle /\ ScanIdle /\ BoxIdle
  /\ HtsIdle /\ WalkIdle /\ SubjIdle

CallHelpFileHeader ==
  /\ ~fh_done
  /\ fh_done' = TRUE
  /\ fh_ret' = HelpFileHeader(fh_file, fh_max)
  /\ UNCHANGED <<C_HelpDocDir, fh_file, fh_max, idxVars, typeVars, pathVars, scanVars, boxVars,
                 htsVars, walkVars, subjVars>>

HdrNext == CallHelpFileHeader

SpecHdr == HdrInit /\ [][HdrNext]_vars

\* C8: a readable document file whose first line is the delimiter and that
\* holds no second delimiter line makes help_file_header return -4 and leave
\* the caller's list unset, however many key: value lines it holds.
NoEndMark(file) ==
  /\ file.lines # <<>>
  /\ file.lines[1] = Mark
  /\ \A k \in 2..Len(file.lines) : file.lines[k] # Mark

C8_MissingEndMarker ==
  (fh_done /\ fh_file.readable /\ EndsInDotMd(fh_file.name) /\ NoEndMark(fh_file)) =>
    (fh_ret.rc = -4 /\ ~fh_ret.set /\ fh_ret.fhdr = <<>>)

\* reached: two well-formed lines were read, the file ends without the mark
C8_Witness ==
  /\ fh_done /\ fh_file.readable /\ fh_file.name = XMd /\ fh_max = -1
  /\ fh_file.lines = <<Mark, KeyValue, KeyValue>>
  /\ fh_ret.rc = -4

(***************************************************************************)
(* SpecPath: help_path_transpose, there and back                           *)
(***************************************************************************)
\* two canonical roots, a root with a trailing slash, a relative root
PathRoots == {RootD, RootDA, RootD \o <<"/">>, Scheme}

PathPrefixes ==
  { RootD, <<"/", "e">>,
    Scheme, <<"H", "E", "L", "P">>,
    Scheme \o <<":">>,
    SchemeSep, <<"H", "E", "L", "P", ":", "/", "/">>,
    <<"H", "e", "l", "p", ":", "/", "/">> }

Rests == UNION {[1..n -> {"/", "a"}] : n \in 0..MaxRest}

PathInit ==
  /\ C_HelpDocDir \in PathRoots
  /\ pt_path \in {pre \o r : pre \in PathPrefixes, r \in Rests}
  /\ pt_validate \in BOOLEAN
  /\ pt_exists \in BOOLEAN
  /\ pt_out = Unset
  /\ pt_back = Unset
  /\ IdxIdle /\ TypeIdle /\ HdrIdle /\ ScanIdle /\ BoxIdle
  /\ HtsIdle /\ WalkIdle /\ SubjIdle

Transpose ==
  /\ pt_out = Unset
  /\ pt_out' = HelpPathTranspose(pt_path, pt_validate, pt_exists)
  /\ UNCHANGED <<C_HelpDocDir, pt_path, pt_validate, pt_exists, pt_back,
                 idxVars, typeVars, hdrVars, scanVars, boxVars,
                 htsVars, walkVars, subjVars>>

TransposeBack ==
  /\ pt_out \notin {Unset, NULL}
  /\ pt_back = Unset
  /\ pt_back' = HelpPathTranspose(pt_out, pt_validate, pt_exists)
  /\ UNCHANGED <<C_HelpDocDir, pt_path, pt_validate, pt_exists, pt_out,
                 idxVars, typeVars, hdrVars, scanVars, boxVars,
                 htsVars, walkVars, subjVars>>

PathNext == Transpose \/ TransposeBack

SpecPath == PathInit /\ [][PathNext]_vars

\* p is the root or lies below it
UnderRoot(p) == p = C_HelpDocDir \/ StartsWithRootSlash(p)

RECURSIVE StripTrailingSlashes(_)
StripTrailingSlashes(s) ==
  IF s # <<>> /\ s[Len(s)] = "/"
  THEN StripTrailingSlashes(SubSeq(s, 1, Len(s) - 1)) ELSE s

\* the run of slashes at the head of s reduced to one slash
RECURSIVE OneLeadingSlash(_)
OneLeadingSlash(s) ==
  IF Len(s) >= 2 /\ s[1] = "/" /\ s[2] = "/" THEN OneLeadingSlash(Tail(s)) ELSE s

\* C9 as stated: for every filesystem path p under the configured root, with
\* validation off, the logical identifier of p converted back is p with its
\* trailing slashes stripped.
C9_RoundTripAsStated ==
  (~pt_validate /\ UnderRoot(pt_path) /\ pt_out # Unset) =>
    (pt_out # NULL /\
     (pt_back # Unset => pt_back = StripTrailingSlashes(pt_path)))

\* C9 amended: if the root is an absolute path that does not end in '/', then
\* for every path p that is the root or the root followed by '/', with
\* validation off, the logical identifier of p converted back is p with its
\* trailing slashes stripped and the run of slashes behind the root reduced
\* to one.
C9_RoundTrip ==
  (~pt_validate /\ UnderRoot(pt_path) /\ pt_out # Unset
     /\ C_HelpDocDir # <<>> /\ C_HelpDocDir[1] = "/"
     /\ C_HelpDocDir[Len(C_HelpDocDir)] # "/") =>
    (pt_out # NULL /\
     (pt_back # Unset =>
        pt_back = StripTrailingSlashes(
                    C_HelpDocDir \o
                      OneLeadingSlash(From(pt_path, Len(C_HelpDocDir) + 1)))))

\* reached: a path with slashes doubled behind the root and at its end went
\* there and back
C9_Witness ==
  /\ ~pt_validate /\ C_HelpDocDir = RootD
  /\ pt_path = <<"/", "d", "/", "/", "a", "/">>
  /\ pt_out = SchemeSep \o <<"a">>
  /\ pt_back = <<"/", "d", "/", "a">>

\* C10: every identifier the mailbox probe accepts as a help identifier is
\* accepted by help_path_transpose too, and converted to the path its form
\* with a lower-case scheme is converted to.
LowerScheme(path) ==
  [k \in 1..Len(path) |-> IF k <= Len(Scheme) THEN ToLower(path[k]) ELSE path[k]]

C10_SchemeAnyCase ==
  (~pt_validate /\ HelpPathProbe(pt_path) /\ pt_out # Unset) =>
    (pt_out # NULL /\
     pt_out = HelpPathTranspose(LowerScheme(pt_path), FALSE, FALSE))

(***************************************************************************)
(* help_doc_clone, help_list_clone, help_doclist_parse, help_msg_open      *)
(*                                                                         *)
(* An element of m->emails is [shared, doc]: shared tells whether the      *)
(* pointer is the very pointer DocList holds at the same position; if not, *)
(* doc is the Email it points to.                                          *)
(***************************************************************************)
\* help_list_get() without a copy function: the pointer DocList holds
HelpDocClone_Shared(item) == [shared |-> TRUE, doc |-> item]

\* help_doc_clone(item): a new Email that holds copies of the attributes
HelpDocClone(item) ==
  [shared |-> FALSE,
   doc |-> [index |-> item.index, path |-> item.path, read |-> item.read,
            type |-> item.type, message_id |-> item.message_id,
            references |-> item.references]]

\* help_list_clone(DocList, true, help_doc_clone)->data
HelpListClone(data) == [i \in 1..Len(data) |-> HelpDocClone(data[i])]

\* *m->emails[i - 1], with st = [emails, data] and data the items of DocList
EmailAt(st, i) ==
  IF st.emails[i].shared /\ i <= Len(st.data) THEN st.data[i]
  ELSE st.emails[i].doc

\* m->emails[i - 1]->read = v
SetRead(st, i, v) ==
  IF ~st.emails[i].shared THEN [st EXCEPT !.emails[i].doc.read = v]
  ELSE IF i <= Len(st.data) THEN [st EXCEPT !.data[i].read = v]
  ELSE st

\* what may lie in memory behind the end of a string
StaleBytes == {<<>>, <<"a">>, XMd, <<"z">>}

\* request += mutt_str_len(C_HelpDocDir) + 1: the strings request may then
\* point to; behind the terminating NUL of the string it is any bytes
RequestTail(request) ==
  IF Len(request) >= Len(C_HelpDocDir) + 1
  THEN {From(request, Len(C_HelpDocDir) + 2)}
  ELSE StaleBytes

\* lines 1019-1033 with request != NULL, for request as advanced in line 1023
MarkRequested(st, request) ==
  LET st0  == SetRead(st, 1, FALSE)
      hits == {i \in 1..Len(st0.emails) :
                 mutt_strn_equal(EmailAt(st0, i).path, request, Len(request))}
      i    == CHOOSE h \in hits : \A g \in hits : h <= g
  IN  IF hits = {} THEN st0
      ELSE SetRead(SetRead(st0, 1, TRUE), i, FALSE)

\* help_doclist_parse(m) from the return of help_doclist_init() on, rc being
\* the value returned: the [rc, m, data] it may end with
ParseOutcomes(m, pathbuf, rc) ==
  IF (rc # 0) \/ (Len(DocList.data) = 0)
  THEN {[rc |-> -1, m |-> [m EXCEPT !.pathbuf = pathbuf], data |-> DocList.data]}
  ELSE
    LET st      == [emails |-> HelpListClone(DocList.data), data |-> DocList.data]
        request == HelpPathTranspose(pathbuf, FALSE, FALSE)
        clean   == HelpPathTranspose(request, FALSE, FALSE)
        Box(s, pb) ==
          [rc |-> 0,
           m  |-> [pathbuf |-> pb, realpath |-> C_HelpDocDir, readonly |-> TRUE,
                   msg_count |-> Len(DocList.data), emails |-> s.emails],
           data |-> s.data]
    IN
    IF request = NULL THEN {Box(SetRead(st, 1, FALSE), pathbuf)}
    ELSE {Box(MarkRequested(st, r), IF clean = NULL THEN <<>> ELSE clean) :
            r \in RequestTail(request)}

(***************************************************************************)
(* SpecBox: the index projected onto a Mailbox and its messages opened     *)
(***************************************************************************)
\* the documents b/x.md and b/y.md, an index document in a, no file elsewhere
BoxParams ==
  {fp \in FsParams :
     /\ fp.rootFiles = "F1" /\ fp.a = "F2" /\ fp.b = "F3"
     /\ \A k \in DOMAIN fp.chain : fp.chain[k] = "F0"}

\* the paths a help Mailbox is opened with
BoxPaths ==
  {SchemeSep, SchemeSep \o <<"a">>, SchemeSep \o XMd, RootDA, <<"/", "e">>}

BoxInit ==
  /\ C_HelpDocDir \in Roots
  /\ fs \in {Tree(fp) : fp \in BoxParams}
  /\ DocList = [null |-> TRUE, data |-> <<>>]
  /\ DocDirID = <<>>
  /\ UpLink = 0
  /\ pending = <<>>
  /\ init_rc = 0
  /\ walked = FALSE
  /\ op = "none"
  /\ lastRoot = <<>>
  /\ prev = [root |-> <<>>, id |-> <<>>, present |-> FALSE]
  /\ batch = NoBatch
  /\ TypeIdle /\ HdrIdle /\ PathIdle /\ ScanIdle /\ BoxIdle
  /\ HtsIdle /\ WalkIdle /\ SubjIdle

\* help_doclist_parse(m) up to the return of its help_doclist_init()
HelpDoclistParse ==
  /\ \E pathbuf \in BoxPaths : DoclistInitCall(<<Task("parse", pathbuf)>>)
  /\ UNCHANGED htsVars

\* help_doclist_parse(m) from the return of its help_doclist_init() on
HelpParseRest ==
  /\ pending # <<>>
  /\ Head(pending).t = "parse"
  /\ \E o \in ParseOutcomes(mbox, Head(pending).path, init_rc) :
       /\ mbox' = o.m
       /\ mx_rc' = o.rc
       /\ DocList' = [DocList EXCEPT !.data = o.data]
  /\ pending' = Tail(pending)
  /\ op' = "parse"
  /\ batch' = NoBatch
  /\ UNCHANGED <<C_HelpDocDir, fs, DocDirID, UpLink, init_rc, walked, lastRoot,
                 prev, typeVars, hdrVars, pathVars, scanVars,
                 htsVars, walkVars, subjVars>>

\* help_msg_open(m, msg, msgno)
HelpMsgOpen ==
  /\ pending = <<>>
  /\ \E msgno \in 0..(mbox.msg_count - 1) :
       LET st0  == [emails |-> mbox.emails, data |-> DocList.data]
           path == mbox.realpath \o <<"/">> \o EmailAt(st0, msgno + 1).path
           st   == SetRead(st0, msgno + 1, TRUE)
           fp   == Resolve(path)         \* fopen(path, "r")
       IN  /\ mbox' = [mbox EXCEPT !.emails = st.emails]
           /\ DocList' = [DocList EXCEPT !.data = st.data]
           /\ mx_rc' = IF fp.type = "DET_REG" /\ fp.readable THEN 0 ELSE -1
  /\ op' = "msg_open"
  /\ batch' = NoBatch
  /\ UNCHANGED <<C_HelpDocDir, fs, DocDirID, UpLink, pending, init_rc, walked,
                 lastRoot, prev, typeVars, hdrVars, pathVars, scanVars,
                 htsVars, walkVars, subjVars>>

BoxNext ==
  \/ HelpDoclistParse
  \/ HelpParseRest
  \/ HelpReadDir
  \/ HelpDocdirId
  \/ HelpMsgOpen
  \/ SetHelpDocDir

SpecBox == BoxInit /\ [][BoxNext]_vars

\* C11: consumption leaves the cached index alone: the part of
\* help_doclist_parse() that follows its help_doclist_init() call (the copy
\* into the Mailbox and the read/unread marking) and help_msg_open() leave the
\* length, the order and every field of every document of DocList, DocDirID
\* and UpLink as they were.
C11_ConsumptionLeavesIndex ==
  [][ (op' \in {"parse", "msg_open"}) =>
        (DocList' = DocList /\ DocDirID' = DocDirID /\ UpLink' = UpLink)
    ]_vars

\* reached: a message was opened in a Mailbox in which another message is
\* marked unread, while every document of DocList is still marked read
C11_Witness ==
  /\ op = "msg_open"
  /\ mbox.msg_count = Len(DocList.data)
  /\ \E i, j \in 1..mbox.msg_count :
       /\ i # j
       /\ mbox.emails[i].doc.read /\ ~mbox.emails[j].doc.read
       /\ mbox.emails[j].doc.path = DocList.data[j].path
  /\ \A i \in 1..Len(DocList.data) : DocList.data[i].read

(***************************************************************************)
(* SpecScan: one call of help_dir_scan                                     *)
(***************************************************************************)
\* the directory dir with a failing readdir() step in front of its entry k
ErrAt(dir, k) ==
  [dir EXCEPT !.entries = SubSeq(@, 1, k - 1) \o <<ReaddirErr>> \o From(@, k)]

ScanParams == {fp \in FsParams : fp.rootFiles = "F1" /\ fp.a = "F2"}

\* /d holds x.md and the directories a and b: no readdir() step fails, or the
\* first one does, or the one between the two directories
ScanTrees ==
  UNION {{Tree(fp), ErrAt(Tree(fp), 1), ErrAt(Tree(fp), 3)} : fp \in ScanParams}

RootDAS == RootDA \o <<"/", "s">>
RootDB  == RootD \o <<"/", "b">>

ScanFilters ==
  { NoFilter,
    [null |-> FALSE, skip |-> {RootDA}, abort |-> {}],
    [null |-> FALSE, skip |-> {}, abort |-> {RootDA}],
    [null |-> FALSE, skip |-> {RootDAS}, abort |-> {RootDB \o <<"/">> \o XMd}] }

ScanInit ==
  /\ C_HelpDocDir = RootD
  /\ fs \in ScanTrees
  /\ sc_path \in {RootD, RootDA, <<"/", "e">>}
  /\ sc_recursive \in BOOLEAN
  /\ sc_mask \in SUBSET {"DET_REG", "DET_DIR"}
  /\ sc_filter \in ScanFilters
  /\ sc_done = FALSE
  /\ sc_ret = [rc |-> 0, gathered |-> <<>>, walked |-> <<>>]
  /\ batch = NoBatch
  /\ DocList = [null |-> TRUE, data |-> <<>>]
  /\ DocDirID = <<>>
  /\ UpLink = 0
  /\ pending = <<>>
  /\ init_rc = 0
  /\ walked = FALSE
  /\ op = "none"
  /\ lastRoot = <<>>
  /\ prev = [root |-> <<>>, id |-> <<>>, present |-> FALSE]
  /\ TypeIdle /\ HdrIdle /\ PathIdle /\ BoxIdle
  /\ HtsIdle /\ WalkIdle /\ SubjIdle

CallHelpDirScan ==
  /\ ~sc_done
  /\ sc_done' = TRUE
  /\ sc_ret' = HelpDirScan(sc_path, sc_recursive, sc_mask, sc_filter)
  /\ UNCHANGED <<C_HelpDocDir, sc_path, sc_recursive, sc_mask, sc_filter,
                 idxVars, typeVars, hdrVars, pathVars, boxVars,
                 htsVars, walkVars, subjVars>>

ScanNext == CallHelpDirScan

SpecScan == ScanInit /\ [][ScanNext]_vars

Range(seq) == {seq[i] : i \in 1..Len(seq)}

\* opendir() of the directory succeeds
CanOpen(path) == Resolve(path).type = "DET_DIR" /\ Resolve(path).readable

\* the steps of the stream of directory path at which readdir() yields an entry
EntrySteps(path) ==
  {k \in 1..Len(Resolve(path).entries) :
     Resolve(path).entries[k].type # "READDIR_ERR"}

EntryPath(path, k) == PathConcat(path, Resolve(path).entries[k].name)

\* C12: help_dir_scan returns -1 exactly when the directory given to the call
\* cannot be opened, and 0 otherwise, whatever happens below it or at single
\* readdir() steps; without a filter, every entry of a directory the scan
\* opened whose type is in the mask is gathered, and in a recursive scan every
\* directory entry is tried, also next to a directory that cannot be opened
\* and behind a failed readdir() step.
C12_OnlyOpenFails ==
  sc_done =>
    /\ sc_ret.rc \in {0, -1}
    /\ (sc_ret.rc = -1) <=> ~CanOpen(sc_path)
    /\ (sc_ret.rc = 0 /\ sc_filter.null) =>
         \A p \in Range(sc_ret.walked) :
           CanOpen(p) =>
             \A k \in EntrySteps(p) :
               LET e == Resolve(p).entries[k]
               IN  /\ (e.type \in sc_mask) =>
                        EntryPath(p, k) \in Range(sc_ret.gathered)
                   /\ (e.type = "DET_DIR" /\ sc_recursive) =>
                        EntryPath(p, k) \in Range(sc_ret.walked)

\* reached: a recursive scan of /d returned 0 although /d/a/s could not be
\* opened and a readdir() step on /d failed; the files of /d/a and those of
\* /d/b, which comes behind both failures, were gathered
C12_Witness ==
  /\ sc_done /\ sc_ret.rc = 0 /\ sc_path = RootD /\ sc_recursive
  /\ sc_filter.null /\ "DET_REG" \in sc_mask
  /\ RootDAS \in Range(sc_ret.walked) /\ ~CanOpen(RootDAS)
  /\ \E k \in 1..Len(fs.entries) :
       /\ fs.entries[k] = ReaddirErr
       /\ \E i, j \in 1..Len(fs.entries) :
            /\ i < k /\ k < j
            /\ fs.entries[i].name = <<"a">> /\ fs.entries[j].name = <<"b">>
  /\ PathConcat(RootDA, XMd) \in Range(sc_ret.gathered)
  /\ PathConcat(RootDB, XMd) \in Range(sc_ret.gathered)

\* the filter ended the enumeration of directory path at a step before k
AbortedBefore(path, k) ==
  \E j \in EntrySteps(path) :
    /\ j < k
    /\ Resolve(path).entries[j].type \in sc_mask
    /\ FilterRc(sc_filter, EntryPath(path, j)) < 0

\* C19 as stated: in a recursive help_dir_scan every directory entry that the
\* enumeration comes to is descended into, whatever the mask and the filter
\* decided for it.
C19_DescentRegardless ==
  (sc_done /\ sc_recursive /\ sc_ret.rc = 0) =>
    \A p \in Range(sc_ret.walked) :
      CanOpen(p) =>
        \A k \in EntrySteps(p) :
          (Resolve(p).entries[k].type = "DET_DIR" /\ ~AbortedBefore(p, k)) =>
            EntryPath(p, k) \in Range(sc_ret.walked)

\* C19 amended: in a recursive help_dir_scan a directory entry is descended
\* into exactly when the enumeration comes to it and it is not in the mask or
\* the filter is absent or answers zero for it; a directory in the mask that
\* the filter answers with a non-zero value is not descended into.
C19_DescentUnlessFiltered ==
  (sc_done /\ sc_recursive /\ sc_ret.rc = 0) =>
    \A p \in Range(sc_ret.walked) :
      CanOpen(p) =>
        \A k \in EntrySteps(p) :
          Resolve(p).entries[k].type = "DET_DIR" =>
            ( EntryPath(p, k) \in Range(sc_ret.walked)
              <=> /\ ~AbortedBefore(p, k)
                  /\ \/ "DET_DIR" \notin sc_mask
                     \/ FilterRc(sc_filter, EntryPath(p, k)) = 0 )

\* reached: the filter answered /d/a with a positive value, so /d/a and the
\* directory below it were not walked, while its sibling /d/b was
C19_Witness ==
  /\ sc_done /\ sc_recursive /\ sc_ret.rc = 0 /\ sc_path = RootD
  /\ "DET_DIR" \in sc_mask
  /\ FilterRc(sc_filter, RootDA) > 0
  /\ CanOpen(RootDA) /\ CanOpen(RootDAS)
  /\ RootDA \notin Range(sc_ret.walked)
  /\ RootDAS \notin Range(sc_ret.walked)
  /\ RootDB \in Range(sc_ret.walked)

(***************************************************************************)
(* Spec: what one help_read_dir() does to DocList.  After such a step the  *)
(* documents of batch.list stand at the positions batch.base + 1, ... of   *)
(* DocList.data.                                                           *)
(***************************************************************************)
\* the last step was a help_read_dir() that found documents
BatchLinked == op = "read" /\ batch.list # <<>>

\* the position in DocList of the document with the given identifier
PosOf(msgid) ==
  CHOOSE i \in 1..Len(DocList.data) : DocList.data[i].message_id = msgid

IsIndex(doc) == HasFlag(doc.type, HELP_DOC_INDEX)

\* within the batch, no document without the index flag stands before one
\* with it
IndexFirst ==
  \A i, j \in (batch.base + 1)..Len(DocList.data) :
    (i < j) => ~(~IsIndex(DocList.data[i]) /\ IsIndex(DocList.data[j]))

\* documents of the batch that compare equal stand in DocList in the order
\* in which the scan found them
TiesKeepOrder ==
  \A a, b \in 1..Len(batch.list) :
    (a < b /\ HelpDocTypeCmp(batch.list[a], batch.list[b]) = 0) =>
      PosOf(batch.list[a].message_id) < PosOf(batch.list[b].message_id)

NoChapterBefore ==
  \A i \in 1..batch.base : ~HasFlag(DocList.data[i].type, HELP_DOC_CHAPTER)

C14_OrphanSectionUnlinked ==
  (BatchLinked /\ HasFlag(DocList.data[batch.base + 1].type, HELP_DOC_SECTION)
     /\ NoChapterBefore) =>
    DocList.data[batch.base + 1].references = <<>>

\* C15: a help_read_dir() of a directory that cannot be opened, or in which
\* no regular file is classified and has a front matter that parses to at
\* least one entry, leaves DocList and UpLink as they were.
IsValidDoc(file) ==
  LET e == Resolve(file)
  IN  /\ e.type = "DET_REG"
      /\ HelpFileType(file) # HELP_DOC_UNKNOWN
      /\ HelpFileHeader([name |-> file, readable |-> e.readable,
                         lines |-> e.lines], HELP_FHDR_MAXLINES).rc >= 1

NoValidDocsIn(path) ==
  ~CanOpen(path) \/ \A k \in EntrySteps(path) : ~IsValidDoc(EntryPath(path, k))

C15_EmptyBatchChangesNothing ==
  [][ (op' = "read" /\ NoValidDocsIn(Head(pending).path)) =>
        (DocList' = DocList /\ UpLink' = UpLink)
    ]_vars

\* reached: a directory that cannot be opened was read while UpLink pointed
\* at a chapter's top document, and UpLink still does
C15_Witness ==
  /\ op = "read" /\ batch.list = <<>>
  /\ ~CanOpen(batch.path)
  /\ UpLink > 0 /\ UpLink = batch.uplink
  /\ Len(DocList.data) = batch.base
  /\ HasFlag(DocList.data[UpLink + 1].type, HELP_DOC_CHAPTER)

\* C16: a batch of more than one document takes the positions behind the
\* former end of DocList, its top document first, and every other document
\* of it has the top document's identifier as its one parent reference.
C16_BatchFollowsTop ==
  (BatchLinked /\ Len(batch.list) > 1) =>
    LET n   == Len(batch.list)
        top == DocList.data[batch.base + 1]
    IN  /\ Len(DocList.data) = batch.base + n
        /\ {DocList.data[batch.base + k].message_id : k \in 1..n}
             = {batch.list[k].message_id : k \in 1..n}
        /\ \A k \in 2..n :
             /\ HelpDocTypeCmp(top, DocList.data[batch.base + k]) <= 0
             /\ DocList.data[batch.base + k].references = <<top.message_id>>

\* reached: a second batch of two documents was appended behind a first one
C16_Witness ==
  /\ BatchLinked /\ Len(batch.list) = 2 /\ batch.base > 0
  /\ Len(DocList.data) = batch.base + 2
  /\ DocList.data[batch.base + 2].references
       = <<DocList.data[batch.base + 1].message_id>>

\* C20: a help_doclist_init() that follows one that failed on a root that
\* could not be opened, with the same root still not to be opened, returns
\* the failure too.
C20_FailureIsRepeated ==
  [][ (op' = "init" /\ walked /\ init_rc = -1 /\ C_HelpDocDir = lastRoot
         /\ ~CanOpen(C_HelpDocDir)) =>
        init_rc' = -1
    ]_vars

(***************************************************************************)
(* SpecHdr: the lines between the delimiters                               *)
(***************************************************************************)
\* a readable document file that begins with the delimiter line
HeaderOpened ==
  fh_done /\ fh_file.readable /\ EndsInDotMd(fh_file.name)
    /\ fh_file.lines # <<>> /\ fh_file.lines[1] = Mark

\* the line has the shape key: value
WellFormed(line) ==
  StrPBrk(line) > 1 /\ line[StrPBrk(line)] = ":"

\* the entry of a well-formed line
EntryOf(line) ==
  [key |-> SubSeq(line, 1, StrPBrk(line) - 1),
   val |-> SkipWhitespace(From(RemoveTrailingWs(line), StrPBrk(line) + 1))]

\* the entries of the well-formed ones of the lines 2 .. last, in order
EntriesUpTo(lines, last) ==
  LET good == SelectSeq(SubSeq(lines, 2, last), WellFormed)
  IN  [k \in 1..Len(good) |-> EntryOf(good[k])]

\* the position of the first delimiter line behind line 1, 0 if there is none
ClosingMark(lines) ==
  LET hits == {k \in 2..Len(lines) : lines[k] = Mark}
  IN  IF hits = {} THEN 0 ELSE CHOOSE k \in hits : \A j \in hits : k <= j

\* C17: if a closing delimiter follows, lines in between that lack the shape
\* key: value are skipped and do not count toward the cap: with no cap, or a
\* cap above the number of well-formed lines, the parse succeeds and returns
\* the entries of the well-formed lines, in order.
C17_ShapelessLinesSkipped ==
  LET c    == ClosingMark(fh_file.lines)
      want == EntriesUpTo(fh_file.lines, c - 1)
  IN  (HeaderOpened /\ c # 0 /\ (fh_max < 0 \/ Len(want) < fh_max)) =>
        (fh_ret.rc = Len(want) /\ fh_ret.set /\ fh_ret.fhdr = want)

\* the position at which the loop of help_file_header is left: the first
\* line behind line 1 that is the delimiter or holds none of ':', ' ' and
\* tab, or the position behind the last line
LoopEnd(lines) ==
  LET hits == {k \in 2..Len(lines) : lines[k] = Mark \/ StrPBrk(lines[k]) = 0}
  IN  IF hits = {} THEN Len(lines) + 1
      ELSE CHOOSE k \in hits : \A j \in hits : k <= j

\* the cap is finite and as many well-formed lines as it allows stand before
\* the first closing delimiter (or the end of the file)
CapReached ==
  LET c == ClosingMark(fh_file.lines)
  IN  /\ fh_max >= 0
      /\ Len(EntriesUpTo(fh_file.lines,
                         IF c = 0 THEN Len(fh_file.lines) ELSE c - 1)) >= fh_max

\* C18 as stated: with a finite cap that is reached before a closing
\* delimiter line was read, help_file_header returns -4, whether or not a
\* closing delimiter stands further down.  Taken in its narrowest sense: the
\* cap is not zero, and more well-formed lines than it allows stand before
\* the closing delimiter.
C18_CapFails ==
  LET c == ClosingMark(fh_file.lines)
  IN  (HeaderOpened /\ CapReached /\ fh_max >= 1
         /\ Len(EntriesUpTo(fh_file.lines,
                            IF c = 0 THEN Len(fh_file.lines) ELSE c - 1)) > fh_max) =>
        (fh_ret.rc = -4 /\ ~fh_ret.set)

\* C18 amended: with a finite cap that is reached before a closing delimiter
\* line was read, no further entry is collected but the lines are read on:
\* if the next line that is the delimiter or holds none of ':', ' ' and tab
\* is the delimiter, the parse succeeds with the entries collected up to the
\* cap; if it is not, or there is no such line, it returns -4.
C18_CapStopsCollecting ==
  LET lines == fh_file.lines
      e     == LoopEnd(lines)
      got   == EntriesUpTo(lines, e - 1)
  IN  (HeaderOpened /\ CapReached) =>
        IF e <= Len(lines) /\ lines[e] = Mark
        THEN /\ fh_ret.rc = fh_max /\ fh_ret.set
             /\ fh_ret.fhdr = SubSeq(got, 1, fh_max)
        ELSE fh_ret.rc = -4 /\ ~fh_ret.set

\* reached: the cap of one entry was reached on the first of two well-formed
\* lines, and the closing delimiter behind the second made the parse succeed
C18_Witness ==
  /\ HeaderOpened /\ fh_max = 1
  /\ fh_file.lines = <<Mark, KeyValue, <<"k", ":", "v", " ">>, Mark>>
  /\ fh_ret.rc = 1 /\ fh_ret.set
  /\ fh_ret.fhdr = <<[key |-> <<"k">>, val |-> <<"v">>]>>

(***************************************************************************)
(* SpecLink: the index cache over trees whose nested directories hold two  *)
(* documents each, so that a section batch has more than a top document    *)
(***************************************************************************)
LinkParams ==
  [rootFiles : {"F1"}, rootOpen : {TRUE},
   a : {"FB", "F2"}, b : {"F3"}, aFirst : BOOLEAN,
   chain : [1..(MaxDepth - 1) -> {"F0", "F3"}]]

LinkInit ==
  /\ C_HelpDocDir \in Roots
  /\ fs \in {Tree(fp) : fp \in LinkParams}
  /\ DocList = [null |-> TRUE, data |-> <<>>]
  /\ DocDirID = <<>>
  /\ UpLink = 0
  /\ pending = <<>>
  /\ init_rc = 0
  /\ walked = FALSE
  /\ op = "none"
  /\ lastRoot = <<>>
  /\ prev = [root |-> <<>>, id |-> <<>>, present |-> FALSE]
  /\ batch = NoBatch
  /\ TypeIdle /\ HdrIdle /\ PathIdle /\ ScanIdle /\ BoxIdle
  /\ HtsIdle /\ WalkIdle /\ SubjIdle

SpecLink == LinkInit /\ [][Next]_vars

\* the directory part of a document's path, <<>> for a document of the root
DirOf(path) == SubSeq(path, 1, StrRChr(path, 1, "/") - 1)

\* the first directory of a document's path, <<>> for a document of the root
ChapterOf(path) == SubSeq(path, 1, StrChr(path, 1, "/") - 1)

\* the document at position i is the first of its directory in DocList: it
\* was the top document of its batch
IsBatchTop(i) ==
  \A j \in 1..(i - 1) : DirOf(DocList.data[j].path) # DirOf(DocList.data[i].path)

HasParent(i) == DocList.data[i].references # <<>>

\* the position of the document that the first reference of document i names
ParentPos(i) == PosOf(DocList.data[i].references[1])

\* C21: with HELP_LINK_CHAPTERS off, every document of DocList has at most
\* one parent reference; from every document a document without a parent is
\* reached in at most two steps along the references; and the document that
\* a batch top document refers to is a batch top document without a parent.
C21_TwoLevelThread ==
  (HELP_LINK_CHAPTERS = 0) =>
    \A i \in 1..Len(DocList.data) :
      /\ Len(DocList.data[i].references) <= 1
      /\ HasParent(i) =>
           /\ HasParent(ParentPos(i)) => ~HasParent(ParentPos(ParentPos(i)))
           /\ IsBatchTop(i) =>
                (IsBatchTop(ParentPos(i)) /\ ~HasParent(ParentPos(i)))

\* reached: a document that is two steps away from a document without a
\* parent: it refers to the top document of its section directory, which
\* refers to the top document of a chapter directory
C21_Witness ==
  \E i \in 1..Len(DocList.data) :
    /\ HasParent(i) /\ ~IsBatchTop(i)
    /\ HasFlag(DocList.data[i].type, HELP_DOC_SECTION)
    /\ HasParent(ParentPos(i)) /\ IsBatchTop(ParentPos(i))
    /\ HasFlag(DocList.data[ParentPos(ParentPos(i))].type, HELP_DOC_CHAPTER)
    /\ ~HasParent(ParentPos(ParentPos(i)))

\* C22: after a full rebuild, the top document of a section directory refers
\* to no document of another chapter directory than its own and to no
\* document of the root.
C22_SectionLinksOwnChapter ==
  (InitDone /\ walked /\ init_rc = 0) =>
    \A i \in 1..Len(DocList.data) :
      (HasFlag(DocList.data[i].type, HELP_DOC_SECTION) /\ IsBatchTop(i)
         /\ HasParent(i)) =>
        /\ ChapterOf(DocList.data[ParentPos(i)].path) # <<>>
        /\ ChapterOf(DocList.data[ParentPos(i)].path)
             = ChapterOf(DocList.data[i].path)

(***************************************************************************)
(* SpecOpen: help_mbox_open and help_mbox_close on two Mailboxes, and the  *)
(* global setting $hide_thread_subject they save and restore               *)
(***************************************************************************)
MUTT_HELP == "MUTT_HELP"

MailboxTypes == {MUTT_HELP, "MUTT_MBOX"}

BoxIds == {"A", "B"}

\* a Mailbox that is not open: state is "closed", "opening" while its
\* help_mbox_open() runs, "open" after that returned 0 and "failed" after it
\* returned -1 from help_doclist_parse()
ClosedBox == [state |-> "closed", path |-> <<>>, m |-> NewMailbox]

OpenPaths == {SchemeSep, SchemeSep \o <<"a">>}

\* access(path, F_OK) == 0
Access(path) == Resolve(path).type # "DET_NONE"

\* realpath(path, NULL): the tree has no links, and a path that names an
\* entry of it has no ".", "..", repeated or trailing slash
Realpath(path) == IF Access(path) THEN path ELSE NULL

\* NONULL(s)
NoNull(str) == IF str = NULL THEN <<>> ELSE str

AllClosed == \A b \in BoxIds : boxes[b].state = "closed"

OpenInit ==
  /\ C_HelpDocDir \in Roots \cup {<<"/", "e">>}
  /\ fs \in {Tree(fp) : fp \in BoxParams}
  /\ DocList = [null |-> TRUE, data |-> <<>>]
  /\ DocDirID = <<>>
  /\ UpLink = 0
  /\ pending = <<>>
  /\ init_rc = 0
  /\ walked = FALSE
  /\ op = "none"
  /\ lastRoot = <<>>
  /\ prev = [root |-> <<>>, id |-> <<>>, present |-> FALSE]
  /\ batch = NoBatch
  /\ C_HideThreadSubject \in BOOLEAN
  /\ Backup_HTS = FALSE
  /\ boxes = [b \in BoxIds |-> ClosedBox]
  /\ hts_first = C_HideThreadSubject
  /\ TypeIdle /\ HdrIdle /\ PathIdle /\ ScanIdle /\ BoxIdle
  /\ WalkIdle /\ SubjIdle

\* help_mbox_open(m) up to the return of the help_doclist_init() call of its
\* help_doclist_parse(m).  Line 1085 stores the string that C_HelpDocDir
\* holds already.
HelpMboxOpen ==
  /\ pending = <<>>
  /\ \E b \in BoxIds, type \in MailboxTypes, pathbuf \in OpenPaths :
       /\ boxes[b].state = "closed"
       /\ IF (type # MUTT_HELP) \/ (HelpDocdirChanged /\ ~Access(C_HelpDocDir))
          THEN /\ mx_rc' = -1
               /\ op' = "mbox_open"
               /\ batch' = NoBatch
               /\ UNCHANGED <<C_HelpDocDir, fs, DocList, DocDirID, UpLink,
                              pending, init_rc, walked, lastRoot, prev, mbox,
                              typeVars, hdrVars, pathVars, scanVars, htsVars,
                              walkVars, subjVars>>
          ELSE /\ HelpDocdirChanged => NoNull(Realpath(C_HelpDocDir)) = C_HelpDocDir
               /\ Backup_HTS' = C_HideThreadSubject
               /\ C_HideThreadSubject' = FALSE
               /\ hts_first' = IF AllClosed THEN C_HideThreadSubject
                               ELSE hts_first
               /\ boxes' = [boxes EXCEPT ![b] =
                              [state |-> "opening", path |-> pathbuf,
                               m |-> NewMailbox]]
               /\ DoclistInitCall(<<Task("parse", pathbuf)>>)

\* help_mbox_open(m) from the return of help_doclist_init() on: the rest of
\* help_doclist_parse(m), whose value help_mbox_open returns
HelpMboxOpenReturn ==
  /\ pending # <<>>
  /\ Head(pending).t = "parse"
  /\ \E b \in BoxIds :
       /\ boxes[b].state = "opening"
       /\ \E o \in ParseOutcomes(boxes[b].m, Head(pending).path, init_rc) :
            /\ boxes' = [boxes EXCEPT ![b] =
                           [state |-> IF o.rc = 0 THEN "open" ELSE "failed",
                            path |-> boxes[b].path, m |-> o.m]]
            /\ mx_rc' = o.rc
            /\ DocList' = [DocList EXCEPT !.data = o.data]
  /\ pending' = Tail(pending)
  /\ op' = "parse"
  /\ batch' = NoBatch
  /\ UNCHANGED <<C_HelpDocDir, fs, DocDirID, UpLink, init_rc, walked, lastRoot,
                 prev, mbox, C_HideThreadSubject, Backup_HTS, hts_first,
                 typeVars, hdrVars, pathVars, scanVars, walkVars, subjVars>>

\* help_mbox_close(m), for a Mailbox that is open or whose help_mbox_open()
\* failed after it had changed the setting
HelpMboxClose ==
  /\ pending = <<>>
  /\ \E b \in BoxIds :
       /\ boxes[b].state \in {"open", "failed"}
       /\ boxes' = [boxes EXCEPT ![b] = ClosedBox]
  /\ C_HideThreadSubject' = Backup_HTS
  /\ mx_rc' = 0
  /\ op' = "mbox_close"
  /\ batch' = NoBatch
  /\ UNCHANGED <<C_HelpDocDir, fs, DocList, DocDirID, UpLink, pending, init_rc,
                 walked, lastRoot, prev, mbox, Backup_HTS, hts_first,
                 typeVars, hdrVars, pathVars, scanVars, walkVars, subjVars>>

OpenNext ==
  \/ HelpMboxOpen
  \/ HelpMboxOpenReturn
  \/ HelpReadDir
  \/ HelpDocdirId
  \/ HelpMboxClose
  \/ SetHelpDocDir

SpecOpen == OpenInit /\ [][OpenNext]_vars

\* C23: whenever every Mailbox that help_mbox_open() was called for has been
\* closed again by help_mbox_close(), C_HideThreadSubject has the value it
\* had before the first of these help_mbox_open() calls, also when two
\* Mailboxes were open at the same time.
C23_SettingRestored ==
  (AllClosed /\ pending = <<>>) => (C_HideThreadSubject = hts_first)

(***************************************************************************)
(* SpecWalk: one call of help_dir_scan taken readdir() by readdir(), with  *)
(* the directory streams it holds open                                     *)
(***************************************************************************)
\* a step of the directory stream at which readdir() fails and leaves the
\* stream where it is: every further readdir() of the stream fails as well
ReaddirStuck == [name |-> <<"!">>, type |-> "READDIR_STUCK", readable |-> FALSE,
                 lines |-> <<>>, entries |-> <<>>]

\* the directory dir with such a step in front of its entry k
StuckAt(dir, k) ==
  [dir EXCEPT !.entries = SubSeq(@, 1, k - 1) \o <<ReaddirStuck>> \o From(@, k)]

WalkParams ==
  {fp \in ScanParams :
     /\ fp.rootOpen /\ fp.aFirst /\ fp.b = "F3"
     /\ fp.chain[1] \in {"F1", "FX"}
     /\ \A k \in DOMAIN fp.chain : fp.chain[k] = fp.chain[1]}

\* /d holds x.md and the directories a and b: no readdir() step fails, or one
\* fails once, or readdir() keeps failing at one step of /d or of /d/a
WalkTrees ==
  UNION {{Tree(fp), ErrAt(Tree(fp), 1), ErrAt(Tree(fp), 3),
          StuckAt(Tree(fp), 1), StuckAt(Tree(fp), 3),
          [Tree(fp) EXCEPT !.entries[2] = StuckAt(@, 2)]} : fp \in WalkParams}

WalkInit ==
  /\ C_HelpDocDir = RootD
  /\ fs \in WalkTrees
  /\ sc_path \in {RootD, RootDA, <<"/", "e">>}
  /\ sc_recursive \in BOOLEAN
  /\ sc_mask \in {{"DET_REG", "DET_DIR"}, {"DET_DIR"}, {}}
  /\ sc_filter \in ScanFilters
  /\ sc_done = FALSE
  /\ sc_ret = [rc |-> 0, gathered |-> <<>>, walked |-> <<>>]
  /\ batch = NoBatch
  /\ DocList = [null |-> TRUE, data |-> <<>>]
  /\ DocDirID = <<>>
  /\ UpLink = 0
  /\ pending = <<>>
  /\ init_rc = 0
  /\ walked = FALSE
  /\ op = "none"
  /\ lastRoot = <<>>
  /\ prev = [root |-> <<>>, id |-> <<>>, present |-> FALSE]
  /\ TypeIdle /\ HdrIdle /\ PathIdle /\ BoxIdle
  /\ HtsIdle /\ WalkIdle /\ SubjIdle

\* the value a failing readdir() leaves in errno
EIO == 5

\* an activation of help_dir_scan(path, ...) whose opendir() has succeeded
\* on the directory dir
Frame(path, dir) ==
  [path |-> path, dp |-> dir.entries, k |-> 1, errno |-> 0, pc |-> "reset"]

Top == wk_stack[Len(wk_stack)]

\* the activations with the innermost one replaced
WithTop(f) == [wk_stack EXCEPT ![Len(wk_stack)] = f]

\* the innermost activation goes on with the next iteration of its loop, the
\* stream being at step k
Continue(k, errno) == [Top EXCEPT !.k = k, !.errno = errno, !.pc = "reset"]

\* lines 648-658 of the outermost call
WalkCall ==
  /\ wk_state = "idle"
  /\ IF Resolve(sc_path).type = "DET_DIR" /\ Resolve(sc_path).readable
     THEN /\ wk_state' = "run"
          /\ wk_stack' = <<Frame(sc_path, Resolve(sc_path))>>
          /\ wk_open' = wk_open + 1
          /\ wk_rc' = wk_rc
     ELSE /\ wk_state' = "done"
          /\ wk_rc' = -1
          /\ UNCHANGED <<wk_stack, wk_open>>
  /\ UNCHANGED <<wk_gathered, C_HelpDocDir, idxVars, typeVars, hdrVars,
                 pathVars, scanVars, boxVars, htsVars, subjVars>>

\* line 663: errno = 0
WalkReset ==
  /\ wk_state = "run"
  /\ Top.pc = "reset"
  /\ wk_stack' = WithTop([Top EXCEPT !.errno = 0, !.pc = "read"])
  /\ UNCHANGED <<wk_state, wk_open, wk_gathered, wk_rc, C_HelpDocDir, idxVars,
                 typeVars, hdrVars, pathVars, scanVars, boxVars, htsVars,
                 subjVars>>

\* lines 701-703: closedir(dp) and return 0, to the caller's loop or, from
\* the outermost call, to the caller of help_dir_scan
WalkReturn ==
  /\ wk_open' = wk_open - 1
  /\ wk_stack' = SubSeq(wk_stack, 1, Len(wk_stack) - 1)
  /\ IF Len(wk_stack) = 1
     THEN wk_state' = "done" /\ wk_rc' = 0
     ELSE UNCHANGED <<wk_state, wk_rc>>
  /\ UNCHANGED wk_gathered

\* lines 664-699: readdir(dp) and what the loop does with its result
WalkReaddir ==
  /\ wk_state = "run"
  /\ Top.pc = "read"
  /\ LET entries == Top.dp
         k       == Top.k
     IN
     IF k > Len(entries) THEN WalkReturn       \* end of stream: break
     ELSE
       LET ep      == entries[k]
           np      == ep.name
           abspath == PathConcat(Top.path, np)
           flag    == ep.type
           rc      == IF flag \in sc_mask THEN FilterRc(sc_filter, abspath) ELSE 0
           below   == ep                  \* what abspath names
       IN
       IF ep.type = "READDIR_ERR"
       THEN /\ wk_stack' = WithTop(Continue(k + 1, EIO))
            /\ UNCHANGED <<wk_state, wk_open, wk_gathered, wk_rc>>
       ELSE IF ep.type = "READDIR_STUCK"
       THEN /\ wk_stack' = WithTop(Continue(k, EIO))
            /\ UNCHANGED <<wk_state, wk_open, wk_gathered, wk_rc>>
       ELSE IF np = <<>> \/ np = <<".">> \/ np = <<".", ".">>
       THEN /\ wk_stack' = WithTop(Continue(k + 1, 0))
            /\ UNCHANGED <<wk_state, wk_open, wk_gathered, wk_rc>>
       ELSE IF rc < 0 THEN WalkReturn           \* break
       ELSE IF 0 < rc
       THEN /\ wk_stack' = WithTop(Continue(k + 1, 0))
            /\ UNCHANGED <<wk_state, wk_open, wk_gathered, wk_rc>>
       ELSE
         /\ wk_gathered' = IF flag \in sc_mask
                           THEN Append(wk_gathered, abspath) ELSE wk_gathered
         /\ IF flag = "DET_DIR" /\ sc_recursive /\ below.readable
            THEN /\ wk_stack' = Append(WithTop(Continue(k + 1, 0)),
                                     Frame(abspath, below))
                 /\ wk_open' = wk_open + 1
            ELSE /\ wk_stack' = WithTop(Continue(k + 1, 0))
                 /\ wk_open' = wk_open
         /\ UNCHANGED <<wk_state, wk_rc>>
  /\ UNCHANGED <<C_HelpDocDir, idxVars, typeVars, hdrVars, pathVars, scanVars,
                 boxVars, htsVars, subjVars>>

WalkNext ==
  \/ WalkCall
  \/ WalkReset
  \/ WalkReaddir

SpecWalk == WalkInit /\ [][WalkNext]_vars

\* the call takes its next step as long as it has not returned
SpecWalkLive == SpecWalk /\ WF_vars(WalkNext)

\* C24: every call of help_dir_scan returns, with every directory stream it
\* opened closed again, also when readdir() steps fail.
C24_ScanReturns == <>(wk_state = "done" /\ wk_open = 0)

(***************************************************************************)
(* SpecSubj: help_doc_subject as help_doc_from calls it, one iteration of  *)
(* its loop per step                                                       *)
(***************************************************************************)
\* sizeof(subject)
SUBJECT_SIZE == 256

\* a - b in size_t: below zero it wraps around, to the value 2^64 - val
SizeSub(a, b) ==
  IF b <= a THEN [wrapped |-> FALSE, val |-> a - b]
  ELSE [wrapped |-> TRUE, val |-> b - a]

\* strstr(s + from - 1, "%s"): the position of the match, 0 for NULL
StrStrPct(str, from) ==
  LET hits == {i \in from..(Len(str) - 1) : str[i] = "%" /\ str[i + 1] = "s"}
  IN  IF hits = {} THEN 0 ELSE CHOOSE i \in hits : \A j \in hits : i <= j

\* the string a printf() of format f, which holds one "%s", makes of val
Format(f, val) ==
  LET q == StrStrPct(f, 1)
  IN  IF q = 0 THEN f
      ELSE SubSeq(f, 1, q - 1) \o val \o From(f, q + 2)

\* mutt_str_copy(dest, src, dsize): the string dest holds afterwards
MuttStrCopy(src, dsize) == SubSeq(src, 1, Min(Len(src), dsize - 1))

\* help_file_hdr_find(key, fhdr): the position of the entry, 0 for NULL
HelpFileHdrFind(key, fhdr) ==
  LET hits == {i \in 1..Len(fhdr) : fhdr[i].key = key}
  IN  IF key = <<>> \/ hits = {} THEN 0
      ELSE CHOOSE i \in hits : \A j \in hits : i <= j

\* the arguments of the call in help_doc_from
SubjFmt   == <<"[", "%", "s", "]", ":", " ", "%", "s">>
SubjKeys  == << <<"t", "i", "t", "l", "e">>,
                <<"d", "e", "s", "c", "r", "i", "p", "t", "i", "o", "n">> >>
SubjDefault == <<"[", "a", "]", ":", " ", "x">>

\* a header value of n characters
Fill(n) == [i \in 1..n |-> "v"]

\* the lengths of the header values: short ones and ones around the size of
\* subject
SubjLens == {0, 1, 2, 250, 251, 252, 253, 254, 300}

\* front matter with or without a title and a description line
SubjHeaders ==
  {t \o d :
     t \in {<<>>} \cup {<<[key |-> SubjKeys[1], val |-> Fill(n)]>> : n \in SubjLens},
     d \in {<<>>} \cup {<<[key |-> SubjKeys[2], val |-> Fill(n)]>> : n \in SubjLens}}

SubjInit ==
  /\ sj_fhdr \in SubjHeaders
  /\ sj_keys = SubjKeys
  /\ sj_p = 1
  /\ sj_l = 0
  /\ sj_subject = Unset
  /\ sj_calls = <<>>
  /\ sj_done = FALSE
  /\ C_HelpDocDir = RootD
  /\ IdxIdle /\ TypeIdle /\ HdrIdle /\ PathIdle /\ ScanIdle /\ BoxIdle
  /\ HtsIdle /\ WalkIdle

\* the string in subject after snprintf(subject + l, space, f, val): at most
\* space - 1 characters are stored behind the first l; with no space left
\* nothing is stored; a store behind the end of subject is undefined, the
\* string in subject may then be anything
Snprintf(subject, l, space, out) ==
  IF space.wrapped THEN {subject, Unset}
  ELSE IF space.val = 0 THEN {subject}
  ELSE {SubSeq(NoNull(IF subject = Unset THEN NULL ELSE subject), 1, l)
          \o SubSeq(out, 1, Min(Len(out), space.val - 1))}

\* lines 532-555: one iteration of the while loop whose condition holds
SubjIterate ==
  /\ ~sj_done
  /\ StrStrPct(SubjFmt, sj_p) # 0
  /\ sj_keys # <<>>
  /\ LET q     == StrStrPct(SubjFmt, sj_p)
         hdr   == HelpFileHdrFind(Head(sj_keys), sj_fhdr)
         end   == StrStrPct(SubjFmt, q + 2)
         f     == IF end # 0 THEN SubSeq(SubjFmt, sj_p, end - 1)
                  ELSE From(SubjFmt, sj_p)
         out   == Format(f, sj_fhdr[hdr].val)
         space == SizeSub(SUBJECT_SIZE, sj_l)
     IN
     IF hdr = 0
     THEN /\ sj_subject' = MuttStrCopy(SubjDefault, SUBJECT_SIZE)
          /\ sj_done' = TRUE                   \* break, and line 558
          /\ UNCHANGED <<sj_keys, sj_p, sj_l, sj_calls>>
     ELSE /\ sj_calls' = Append(sj_calls, [offset |-> sj_l, space |-> space])
          /\ sj_subject' \in Snprintf(sj_subject, sj_l, space, out)
          /\ sj_p' = sj_p + Len(f)
          /\ sj_l' = sj_l + Len(out)
          /\ sj_keys' = Tail(sj_keys)
          /\ sj_done' = FALSE
  /\ UNCHANGED <<sj_fhdr, C_HelpDocDir, idxVars, typeVars, hdrVars, pathVars,
                 scanVars, boxVars, htsVars, walkVars>>

\* lines 532 and 556-558: the condition of the loop fails, the function
\* returns a copy of subject
SubjReturn ==
  /\ ~sj_done
  /\ StrStrPct(SubjFmt, sj_p) = 0 \/ sj_keys = <<>>
  /\ sj_done' = TRUE
  /\ UNCHANGED <<sj_fhdr, sj_keys, sj_p, sj_l, sj_subject, sj_calls,
                 C_HelpDocDir, idxVars, typeVars, hdrVars, pathVars, scanVars,
                 boxVars, htsVars, walkVars>>

SubjNext ==
  \/ SubjIterate
  \/ SubjReturn

SpecSubj == SubjInit /\ [][SubjNext]_vars

\* C25: at every snprintf() call of help_doc_subject, whatever the lengths of
\* the header values, the offset l is at most sizeof(subject), and the size
\* argument sizeof(subject) - l has not wrapped around below zero.
C25_OffsetWithinBuffer ==
  \A c \in 1..Len(sj_calls) :
    /\ sj_calls[c].offset <= SUBJECT_SIZE
    /\ ~sj_calls[c].space.wrapped

====
